---- MODULE Spec2Model ----
(***************************************************************************)
(* Verification model of the torrent-streamer backend and scraper worker.  *)
(*                                                                         *)
(*   Part I   POST /ingest (Drizzle route and R1 route), the torrent       *)
(*            table, the category table and the KV cache.                  *)
(*   Part II  The worker's request primitives: BaseScraper.makeRequest,    *)
(*            helpers.retry and HttpClient.getHtml, with a clock.          *)
(*   Part III The normalizer BaseScraper.validateAndNormalizeTorrent with  *)
(*            helpers.cleanText and helpers.extractInfoHash.               *)
(*   Part IV  The worker's orchestration: runScrapers over the registered  *)
(*            scrapers, for concurrently handled runs.                     *)
(*   Part V   helpers.parseFileSize.                                       *)
(*   Part VI  The stats object of a scraper instance (BaseScraper.scrape).    *)
(*   Part VII The KV cache client (KVCacheClient get / put / delete).        *)
(*   Part VIII R1DatabaseClient.createTorrent.                                *)
(*   Part IX  Two POST /ingest handlers running at the same time.             *)
(*   Part X   GET latest through the cache, and POST /ingest.                 *)
(*   Part XI  sendToBackend and sendBatchWithRetry.                            *)
(*   Part XII The connection of R1DatabaseClient.                              *)
(*   Part XIII TorrentBloc of the Flutter client.                              *)
(***************************************************************************)
EXTENDS Integers, Sequences, FiniteSets, TLC

VARIABLES
    \* ---- Part I: ingest -------------------------------------------------
    route,        \* which ingest route file is deployed: "drizzle" or "r1"
    store,        \* torrent table, rows in created_at order
    categories,   \* category table (set of names)
    cache,        \* keys held by the KV cache
    nextId,       \* source of fresh row ids (randomUUID)
    pc,           \* position of the POST handler
    apiKey,       \* x-api-key header of the request being handled
    body,         \* body.torrents of the request being handled
    idx,          \* loop position in validatedData.torrents
    results,      \* results[] of the handler (indices of the records)
    errors,       \* errors[] of the handler (indices of the records)
    status,       \* HTTP status of the response
    served,       \* number of requests answered so far
    allOk         \* every answered request so far was answered 200

ingestVars == <<route, store, categories, cache, nextId, pc, apiKey, body,
                idx, results, errors, status, served, allOk>>

VARIABLES
    \* ---- Part II: request primitives of the worker ------------------------
    config,       \* config of the scraper the callers share (delay, maxRetries)
    cpc,          \* position of each caller
    op,           \* what each caller runs: "makeRequest" or "getHtml"
    wake,         \* ms left until each caller's pending timer or fetch ends
    retryI,       \* loop counter i of retry / getHtml, per caller
    attempts,     \* fetches issued for the caller's current request
    lastError,    \* outcome of the caller's latest finished fetch
    calls,        \* requests each caller has started
    sinceLast,    \* ms since the latest fetch to the source was issued
    gap           \* ms between the latest two fetches issued to the source

fetchVars == <<config, cpc, op, wake, retryI, attempts, lastError, calls,
               sinceLast, gap>>

VARIABLES
    \* ---- Part III: normalizer ---------------------------------------------
    torrentData,  \* raw record handed to validateAndNormalizeTorrent
    normalized,   \* value the latest call returned
    previous,     \* value the call before it returned for the same record
    npc           \* "input": record parsed, "returned": normalizer returned,
                  \* "repeated": normalizer returned for the record again

normVars == <<torrentData, normalized, previous, npc>>

VARIABLES
    \* ---- Part IV: runs ----------------------------------------------------
    runPc,        \* position of each run's handler
    scraperNames, \* scraper names each run was asked for
    options,      \* options of each run
    tasks,        \* per run, the callbacks of concurrentScrapers.map
    runResults,   \* per run, the array runScrapers returned
    response,     \* per run, HTTP status answered (0: none)
    delivery,     \* per run, how sendToBackend ended ("pending": not yet)
    ingested,     \* listing pages whose records the backend was sent so far
    cancelAsked   \* per run, the operator has asked the worker to cancel it

runVars == <<runPc, scraperNames, options, tasks, runResults, response,
             delivery, ingested, cancelAsked>>

VARIABLES
    \* ---- Part V: parseFileSize --------------------------------------------
    sizeStr,      \* the size string handed to parseFileSize
    sizeBytes,    \* the number the latest call returned
    spc           \* "input": string read, "returned": parseFileSize returned

parseVars == <<sizeStr, sizeBytes, spc>>

VARIABLES
    \* ---- Part VI: BaseScraper.stats ----------------------------------------
    stats,        \* this.stats of one scraper instance
    clock,        \* value new Date() returns next
    spos,         \* position of each caller of scrape()
    snap          \* per caller, the stats its returned result showed on return

statVars == <<stats, clock, spos, snap>>

VARIABLES
    \* ---- Part VII: KVCacheClient -------------------------------------------
    kvCache,      \* this.cache: key -> stored entry, or no entry
    kvNow,        \* value Date.now() returns, in seconds
    kvAdvances,   \* how many times the clock has moved on
    lastPut,      \* per key, the most recent put and whether a delete followed
    kvOp,         \* what happened last (an operation, or time passing) and the key
    kvResult      \* value of the CacheResult the last get returned

kvVars == <<kvCache, kvNow, kvAdvances, lastPut, kvOp, kvResult>>

VARIABLES
    \* ---- Part VIII: R1DatabaseClient.createTorrent --------------------------
    torrentTable,   \* rows of the torrent table, in insertion order
    supplied,       \* torrentData of the last createTorrent call
    createdTorrent  \* what the last createTorrent call returned

createVars == <<torrentTable, supplied, createdTorrent>>

VARIABLES
    \* ---- Part IX: two POST /ingest handlers at once -------------------------
    deployed,     \* which ingest route file is deployed: "drizzle" or "r1"
    torrentRows,  \* torrent table, rows in created_at order
    incoming,     \* per handler, the record of its request
    existing,     \* per handler, existingTorrent as its lookup found it
    hpc,          \* per handler, its position in processTorrentData
    reported      \* per handler, where the loop pushed the record

raceVars == <<deployed, torrentRows, incoming, existing, hpc, reported>>

VARIABLES
    \* ---- Part X: GET latest through the cache, and POST /ingest -------------
    latestPc,       \* position of the GET latest handler
    dbVersion,      \* how many ingest writes the torrent table has taken
    freshValue,     \* what fetchFn read from the table, on a cache miss
    latestResponse, \* torrents of the last GET latest response
    lastEvent       \* the response given last: of a GET, or of a POST /ingest

latestVars == <<latestPc, dbVersion, freshValue, latestResponse, lastEvent>>

VARIABLES
    \* ---- Part XI: sendToBackend ---------------------------------------------
    allTorrents,  \* allTorrents.length of the call
    batchStart,   \* i of the loop over the batches
    retryCount,   \* retryCount of the sendBatchWithRetry call in progress
    submitted,    \* the values of i whose batch was posted at least once
    sendPc,       \* position of sendToBackend
    lastFailure   \* how the last post of the batch in progress failed

sendVars == <<allTorrents, batchStart, retryCount, submitted, sendPc,
              lastFailure>>

VARIABLES
    \* ---- Part XII: the connection of R1DatabaseClient -----------------------
    client,       \* this.client: the PostgreSQLClient held, or none
    isConnected,  \* this.isConnected
    constructed,  \* how many PostgreSQLClient objects were constructed so far
    openClients,  \* the constructed clients that were not ended
    opPc,         \* per operation, its position in query()
    ending        \* the client disconnect() is ending, or none

connVars == <<client, isConnected, constructed, openClients, opPc, ending>>

VARIABLES
    \* ---- Part XIII: TorrentBloc ---------------------------------------------
    blocState,    \* state of the bloc: its class and the torrents it carries
    pending,      \* the search / latest event being handled, if any
    handled       \* how the last handled event ended, with the torrents the
                  \* bloc held when the event came in and the page's torrents

blocVars == <<blocState, pending, handled>>

vars == <<ingestVars, fetchVars, normVars, runVars, parseVars, statVars,
         kvVars, createVars, raceVars, latestVars, sendVars, connVars,
         blocVars>>

----------------------------------------------------------------------------
(* Values                                                                  *)

Undef == "undefined"
Null == "null"
NoHeader == "no-header"

\* process.env.INGEST_API_KEY as configured for the deployment
ingestApiKey == "secret"

ApiKeys == {NoHeader, ingestApiKey, "wrong"}

\* bounds of the ingest model
MaxRequests == 2
MaxBatch == 2
\* batchIngestSchema: z.array(...).min(1).max(100)
MaxBatchSize == 100

GoodTitle == <<"I", "S", "O">>

Rec(t, h, m, s, c) ==
    [title |-> t, infoHash |-> h, magnetLink |-> m, seeders |-> s,
     categoryName |-> c]

\* the records a request body is built from
TorrentInputs ==
    { Rec(GoodTitle, "h1", "magnet:1", 5, "Movies"),
      Rec(GoodTitle, "h2", "magnet:2", 0, Undef),
      Rec(GoodTitle, Undef, "magnet:1", 5, Undef),
      Rec(GoodTitle, Undef, "magnet:2", 0, Undef),
      Rec(GoodTitle, Undef, Undef, 0, Undef),
      Rec(GoodTitle, "", Undef, 0, Undef),
      Rec(<<>>, "h2", "not a url", 0, Undef) }

Bodies == UNION { [1..n -> TorrentInputs] : n \in 0..MaxBatch }

----------------------------------------------------------------------------
(* Part I: POST /ingest                                                    *)

\* z.string().url()
IsUrl(s) == s \in {"magnet:1", "magnet:2"}

\* torrentDataSchema
torrentDataSchema(r) ==
    /\ Len(r.title) >= 1 /\ Len(r.title) <= 500
    /\ r.magnetLink = Undef \/ IsUrl(r.magnetLink)
    /\ r.seeders >= 0

\* batchIngestSchema
batchIngestSchema(b) ==
    /\ Len(b) >= 1 /\ Len(b) <= MaxBatchSize
    /\ \A i \in 1..Len(b) : torrentDataSchema(b[i])

\* a key check that only rejects a missing header
UnauthorizedOnlyWhenMissing(k) == k = NoHeader

\* apiKey !== ingestApiKey
Unauthorized(k) == k # ingestApiKey

\* JS truthiness of an optional string
Truthy(s) == s # Undef /\ s # Null /\ s # ""

\* UNIQUE(info_hash): a row may not take an info_hash another row holds
UniqueViolation(rows, id, h) ==
    h # Null /\ \E j \in 1..Len(rows) : rows[j].id # id /\ rows[j].infoHash = h

\* Drizzle route: select ... where eq(infoHash | magnetLink) limit 1
\* (the set of rows the query may return; empty when none matches)
DrizzleLookup(rows, r) ==
    IF Truthy(r.infoHash)
    THEN { j \in 1..Len(rows) : rows[j].infoHash = r.infoHash }
    ELSE IF Truthy(r.magnetLink)
    THEN { j \in 1..Len(rows) : rows[j].magnetLink = r.magnetLink }
    ELSE {}

\* R1DatabaseClient.searchTorrents('', 1, 0): ORDER BY created_at DESC LIMIT 1
searchTorrents(rows) == IF Len(rows) = 0 THEN {} ELSE {Len(rows)}

\* R1 route: searchTorrents('', 1, 0).then(ts => ts.find(...))
R1Lookup(rows, r) ==
    IF Truthy(r.infoHash)
    THEN { j \in searchTorrents(rows) : rows[j].infoHash = r.infoHash }
    ELSE IF Truthy(r.magnetLink)
    THEN { j \in searchTorrents(rows) : rows[j].magnetLink = r.magnetLink }
    ELSE {}

OrEmpty(s) == IF Truthy(s) THEN s ELSE ""
OrNull(s) == IF Truthy(s) THEN s ELSE Null
ToColumn(s) == IF s = Undef THEN Null ELSE s

\* the row db.insert(torrent).values(torrentRecord) writes (Drizzle route)
DrizzleRow(id, r) ==
    [id |-> id, infoHash |-> ToColumn(r.infoHash),
     magnetLink |-> OrEmpty(r.magnetLink), seeders |-> r.seeders]

\* db.update(torrent).set({...torrentRecord}): undefined fields are left alone
DrizzleSet(row, r) ==
    [row EXCEPT !.infoHash = IF r.infoHash = Undef THEN @ ELSE r.infoHash,
                !.magnetLink = OrEmpty(r.magnetLink),
                !.seeders = r.seeders]

\* R1DatabaseClient.createTorrent: seeders and leechers are written as 0
createTorrent(id, r) ==
    [id |-> id, infoHash |-> OrNull(r.infoHash),
     magnetLink |-> OrEmpty(r.magnetLink), seeders |-> 0]

\* R1DatabaseClient.updateTorrent: only the defined fields are set
updateTorrent(row, r) ==
    [row EXCEPT !.infoHash = IF r.infoHash = Undef THEN @ ELSE r.infoHash,
                !.magnetLink = OrEmpty(r.magnetLink),
                !.seeders = r.seeders]

\* getOrCreateCategory: the category table after the call
getOrCreateCategory(cats, r) ==
    IF Truthy(r.categoryName) THEN cats \cup {r.categoryName} ELSE cats

\* TorrentCacheManager.cacheCategoryBySlug, called for a newly created category
cacheCategoryBySlug(c, cats, r) ==
    IF Truthy(r.categoryName) /\ r.categoryName \notin cats
    THEN c \cup {<<"category:slug", r.categoryName>>}
    ELSE c

IngestInit ==
    /\ route \in {"drizzle", "r1"}
    /\ store = <<>>
    /\ categories = {}
    /\ cache = {}
    /\ nextId = 1
    /\ pc = "idle"
    /\ apiKey = NoHeader
    /\ body = <<>>
    /\ idx = 0
    /\ results = <<>>
    /\ errors = <<>>
    /\ status = 0
    /\ served = 0
    /\ allOk = TRUE

Answer(code) ==
    /\ pc' = "responded"
    /\ status' = code
    /\ served' = served + 1
    /\ allOk' = (allOk /\ code = 200)

\* POST, up to the start of the loop: API key check, then request.json() and
\* batchIngestSchema.  The body is not read when the key check fails.
Post(k, b) ==
    /\ pc \in {"idle", "responded"}
    /\ served < MaxRequests
    /\ apiKey' = k
    /\ body' = IF Unauthorized(k) THEN <<>> ELSE b
    /\ idx' = 1
    /\ results' = <<>>
    /\ errors' = <<>>
    /\ IF Unauthorized(k) THEN Answer(401)
       ELSE IF ~batchIngestSchema(b) THEN Answer(400)
       ELSE /\ pc' = "processing"
            /\ status' = 0
            /\ UNCHANGED <<served, allOk>>
    /\ UNCHANGED <<route, store, categories, cache, nextId>>

\* one iteration of the loop of the Drizzle route: processTorrentData and the
\* push to results or errors
DrizzleProcess ==
    /\ route = "drizzle"
    /\ pc = "processing"
    /\ idx <= Len(body)
    /\ LET r == body[idx]
           found == DrizzleLookup(store, r)
       IN /\ categories' = getOrCreateCategory(categories, r)
          /\ IF found = {}
             THEN LET row == DrizzleRow(nextId, r)
                  IN IF UniqueViolation(store, row.id, row.infoHash)
                     THEN /\ errors' = Append(errors, idx)
                          /\ UNCHANGED <<store, results>>
                     ELSE /\ store' = Append(store, row)
                          /\ results' = Append(results, idx)
                          /\ UNCHANGED errors
             ELSE \E j \in found :
                  LET row == DrizzleSet(store[j], r)
                  IN IF UniqueViolation(store, row.id, row.infoHash)
                     THEN /\ errors' = Append(errors, idx)
                          /\ UNCHANGED <<store, results>>
                     ELSE /\ store' = [store EXCEPT ![j] = row]
                          /\ results' = Append(results, idx)
                          /\ UNCHANGED errors
    /\ nextId' = nextId + 1
    /\ idx' = idx + 1
    /\ UNCHANGED <<route, cache, pc, apiKey, body, status, served, allOk>>

\* one iteration of the loop of the R1 route.  TorrentCacheManager has no
\* invalidateCachePattern method, so the call after the write throws and the
\* record lands in errors although its row has been written.
R1Process ==
    /\ route = "r1"
    /\ pc = "processing"
    /\ idx <= Len(body)
    /\ LET r == body[idx]
           found == R1Lookup(store, r)
       IN /\ categories' = getOrCreateCategory(categories, r)
          /\ cache' = cacheCategoryBySlug(cache, categories, r)
          /\ IF found = {}
             THEN LET row == createTorrent(nextId, r)
                  IN IF UniqueViolation(store, row.id, row.infoHash)
                     THEN UNCHANGED store
                     ELSE store' = Append(store, row)
             ELSE \E j \in found :
                  LET row == updateTorrent(store[j], r)
                  IN IF UniqueViolation(store, row.id, row.infoHash)
                     THEN UNCHANGED store
                     ELSE store' = [store EXCEPT ![j] = row]
    /\ errors' = Append(errors, idx)
    /\ nextId' = nextId + 1
    /\ idx' = idx + 1
    /\ UNCHANGED <<route, pc, apiKey, body, results, status, served, allOk>>

\* the response after the loop.  In the R1 route the invalidateCachePattern
\* call after the loop throws and the outer catch answers 500.
Respond ==
    /\ pc = "processing"
    /\ idx > Len(body)
    /\ IF route = "drizzle" THEN Answer(200) ELSE Answer(500)
    /\ UNCHANGED <<route, store, categories, cache, nextId, apiKey, body,
                   idx, results, errors>>

IngestNext ==
    \/ \E k \in ApiKeys, b \in Bodies : Post(k, b)
    \/ DrizzleProcess
    \/ R1Process
    \/ Respond

----------------------------------------------------------------------------
(* Properties of POST /ingest                                              *)

Range(f) == { f[i] : i \in DOMAIN f }

HasNoHash(row) == ~Truthy(row.infoHash)

\* two rows of the torrent table that carry the same identity
SameIdentity(a, b) ==
    \/ Truthy(a.infoHash) /\ a.infoHash = b.infoHash
    \/ HasNoHash(a) /\ HasNoHash(b) /\ a.magnetLink = b.magnetLink

\* C1: after any sequence of successfully answered POST /ingest requests the
\* torrent table holds at most one row per infoHash and, among the rows
\* without infoHash, at most one per magnetLink.
C1_OneEntityPerIdentity ==
    (pc \in {"idle", "responded"} /\ allOk) =>
        \A i, j \in 1..Len(store) : i < j => ~SameIdentity(store[i], store[j])

\* the records of the handled body that are invalid or were reported in errors
FailedRecords ==
    { i \in 1..Len(body) : ~torrentDataSchema(body[i]) } \cup Range(errors)

\* C2: an authorised batch of n >= 2 records of which exactly one is invalid
\* or fails to be stored is answered 200, with the other n-1 records counted
\* in processed and the failing record listed in errors.
C2_OneFailingRecordDoesNotRejectBatch ==
    (/\ pc = "responded"
     /\ apiKey = ingestApiKey
     /\ Len(body) >= 2
     /\ Cardinality(FailedRecords) = 1) =>
        /\ status = 200
        /\ Len(results) = Len(body) - 1
        /\ Range(errors) = FailedRecords

\* C4: handling a record whose magnetLink and infoHash are both absent or
\* empty leaves the torrent table unchanged and reports the record in errors.
C4_NoEntityWithoutIdentity ==
    [][ (/\ pc = "processing"
         /\ idx' = idx + 1
         /\ ~Truthy(body[idx].magnetLink)
         /\ ~Truthy(body[idx].infoHash)) =>
            (store' = store /\ idx \in Range(errors')) ]_vars

\* C5: a request whose x-api-key is missing or differs from the configured
\* key is answered 401 and writes nothing to the torrent table, the category
\* table or the cache.
C5_UnauthorizedIsRejectedWithoutWrites ==
    [][ apiKey' # ingestApiKey =>
            /\ pc' = "responded"
            /\ status' = 401
            /\ store' = store
            /\ categories' = categories
            /\ cache' = cache ]_vars

\* a request with a wrong key was answered 401 after earlier authorised
\* requests had filled the torrent table and the cache
C5_Witness ==
    /\ pc = "responded"
    /\ status = 401
    /\ apiKey = "wrong"
    /\ Len(store) > 0
    /\ cache # {}

----------------------------------------------------------------------------
(* Part II: BaseScraper.makeRequest, helpers.retry, HttpClient.getHtml     *)

Callers == {1, 2}

\* bounds of the request model
MaxCalls == 2

\* YTSScraper and Scraper1337x constructor configs
YTSConfig == [name |-> "YTS", delay |-> 2000, maxRetries |-> 3]
Config1337x == [name |-> "1337x", delay |-> 3000, maxRetries |-> 5]
Configs == {YTSConfig, Config1337x}

\* retry(requestFn, maxRetries, 1000) in makeRequest
baseDelay == 1000
\* getHtml(url, retries = 3)
retries == 3
\* this.config.maxRetries || 3
DefaultMaxRetries == 3

\* time a fetch takes before it resolves or rejects (ms)
Latencies == {0, 500}
\* Math.random() * 1000, in whole ms
Jitters == {0, 500}
\* elapsed times are tracked up to the longest configured delay
GapCap == 3000

\* what a fetch ends with: a response of some status and content type, or a
\* rejection (network error, timeout)
Outcomes == {"ok", "http404", "http429", "http503", "badtype", "network"}

Pow2(n) == IF n = 0 THEN 1
           ELSE IF n = 1 THEN 2
           ELSE IF n = 2 THEN 4
           ELSE IF n = 3 THEN 8
           ELSE IF n = 4 THEN 16
           ELSE 32

\* const maxRetries = this.config.maxRetries || 3
maxRetries == IF config.maxRetries = 0 THEN DefaultMaxRetries
              ELSE config.maxRetries

\* retry: if (i < maxRetries);  getHtml: if (i < retries - 1)
RetryLoopBound(c) == IF op[c] = "getHtml" THEN retryI[c] < retries - 1
                     ELSE retryI[c] < maxRetries

\* does the attempt throw inside the try block?  In makeRequest the request
\* function is httpClient.get, which resolves with the response whatever its
\* status; getHtml throws for !response.ok and for a non-HTML content type.
Throws(o, outcome) ==
    IF o = "getHtml" THEN outcome # "ok"
    ELSE outcome = "network"

\* retry: baseDelay * 2^i + Math.random() * 1000;  getHtml: 2^i * 1000
Backoff(c, jitter) ==
    IF op[c] = "getHtml" THEN Pow2(retryI[c]) * 1000
    ELSE baseDelay * Pow2(retryI[c]) + jitter

Pending(c) == cpc[c] \in {"delay", "inflight", "backoff"}

\* the timer or fetch of c is the next thing to end
Due(c) == /\ Pending(c)
          /\ \A d \in Callers : Pending(d) => wake[c] <= wake[d]

Min(a, b) == IF a <= b THEN a ELSE b

\* the clock advances by d ms: every other pending timer comes d ms closer
Elapse(w, c, d) ==
    [x \in Callers |-> IF x # c /\ Pending(x) THEN w[x] - d ELSE w[x]]

FetchRest ==
    /\ cpc = [c \in Callers |-> "idle"]
    /\ op = [c \in Callers |-> "makeRequest"]
    /\ wake = [c \in Callers |-> 0]
    /\ retryI = [c \in Callers |-> 0]
    /\ attempts = [c \in Callers |-> 0]
    /\ lastError = [c \in Callers |-> "none"]
    /\ calls = [c \in Callers |-> 0]
    /\ sinceLast = GapCap
    /\ gap = GapCap

FetchInit == config \in Configs /\ FetchRest

FetchIdle == config = YTSConfig /\ FetchRest

\* fetch(url, requestOptions) is issued by caller c, d ms after the last event
Issue(c, d) ==
    /\ \E l \in Latencies : wake' = [Elapse(wake, c, d) EXCEPT ![c] = l]
    /\ cpc' = [cpc EXCEPT ![c] = "inflight"]
    /\ gap' = Min(GapCap, sinceLast + d)
    /\ sinceLast' = 0

\* makeRequest(requestFn): await delay(this.config.delay), then retry(...)
MakeRequest(c) ==
    /\ cpc[c] \in {"idle", "returned", "failed"}
    /\ calls[c] < MaxCalls
    /\ calls' = [calls EXCEPT ![c] = @ + 1]
    /\ op' = [op EXCEPT ![c] = "makeRequest"]
    /\ retryI' = [retryI EXCEPT ![c] = 0]
    /\ attempts' = [attempts EXCEPT ![c] = 0]
    /\ lastError' = [lastError EXCEPT ![c] = "none"]
    /\ cpc' = [cpc EXCEPT ![c] = "delay"]
    /\ wake' = [wake EXCEPT ![c] = config.delay]
    /\ UNCHANGED <<config, sinceLast, gap>>

\* the delay of makeRequest is over: retry starts with i = 0
DelayOver(c) ==
    /\ cpc[c] = "delay"
    /\ Due(c)
    /\ Issue(c, wake[c])
    /\ attempts' = [attempts EXCEPT ![c] = @ + 1]
    /\ UNCHANGED <<config, op, retryI, lastError, calls>>

\* getHtml(url): the loop starts with i = 0 and fetches at once
GetHtml(c) ==
    /\ cpc[c] \in {"idle", "returned", "failed"}
    /\ calls[c] < MaxCalls
    /\ calls' = [calls EXCEPT ![c] = @ + 1]
    /\ op' = [op EXCEPT ![c] = "getHtml"]
    /\ retryI' = [retryI EXCEPT ![c] = 0]
    /\ lastError' = [lastError EXCEPT ![c] = "none"]
    /\ Issue(c, 0)
    /\ attempts' = [attempts EXCEPT ![c] = 1]
    /\ UNCHANGED config

\* the fetch ends: the try block returns, or the catch block runs and either
\* waits for the backoff or leaves the loop and throws lastError
FetchDone(c, outcome) ==
    /\ cpc[c] = "inflight"
    /\ Due(c)
    /\ sinceLast' = Min(GapCap, sinceLast + wake[c])
    /\ lastError' = [lastError EXCEPT ![c] = outcome]
    /\ IF ~Throws(op[c], outcome)
       THEN /\ cpc' = [cpc EXCEPT ![c] = "returned"]
            /\ wake' = [Elapse(wake, c, wake[c]) EXCEPT ![c] = 0]
       ELSE IF RetryLoopBound(c)
       THEN /\ cpc' = [cpc EXCEPT ![c] = "backoff"]
            /\ \E j \in Jitters :
                 wake' = [Elapse(wake, c, wake[c]) EXCEPT ![c] = Backoff(c, j)]
       ELSE /\ cpc' = [cpc EXCEPT ![c] = "failed"]
            /\ wake' = [Elapse(wake, c, wake[c]) EXCEPT ![c] = 0]
    /\ UNCHANGED <<config, op, retryI, attempts, calls, gap>>

\* the backoff is over: i++ and the next attempt
BackoffOver(c) ==
    /\ cpc[c] = "backoff"
    /\ Due(c)
    /\ retryI' = [retryI EXCEPT ![c] = @ + 1]
    /\ Issue(c, wake[c])
    /\ attempts' = [attempts EXCEPT ![c] = @ + 1]
    /\ UNCHANGED <<config, op, lastError, calls>>

FetchNext ==
    \/ \E c \in Callers : MakeRequest(c)
    \/ \E c \in Callers : DelayOver(c)
    \/ \E c \in Callers : GetHtml(c)
    \/ \E c \in Callers, o \in Outcomes : FetchDone(c, o)
    \/ \E c \in Callers : BackoffOver(c)

\* the requests a scraper issues: every one goes through makeRequest
ScraperNext ==
    \/ \E c \in Callers : MakeRequest(c)
    \/ \E c \in Callers : DelayOver(c)
    \/ \E c \in Callers, o \in Outcomes : FetchDone(c, o)
    \/ \E c \in Callers : BackoffOver(c)

----------------------------------------------------------------------------
(* Properties of the request primitives                                    *)

Transient == {"network", "http503"}
NonTransient == {"http404", "badtype"}

\* the configured maximum attempt count of the caller's request
MaxAttempts(c) == IF op[c] = "getHtml" THEN retries ELSE maxRetries

\* C6: a fetch is never attempted more often than the configured maximum
\* attempt count, and a request that ended on a transient failure (network
\* error, 5xx) ended as an error after that many attempts.
C6_TransientRetriedUpToMaxAttempts ==
    \A c \in Callers :
        /\ attempts[c] <= MaxAttempts(c)
        /\ (cpc[c] \in {"returned", "failed"} /\ lastError[c] \in Transient) =>
               (cpc[c] = "failed" /\ attempts[c] = MaxAttempts(c))

\* C7: after an attempt that failed non-transiently (4xx other than 429,
\* wrong content type) the request is over: no backoff wait and no further
\* attempt follows.
C7_NonTransientNotRetried ==
    \A c \in Callers :
        lastError[c] \in NonTransient => cpc[c] \in {"returned", "failed"}

\* C8: any two fetches a scraper issues to its source start at least the
\* configured delay apart.
C8_MinimumDelayBetweenRequests == gap >= config.delay

IngestIdle ==
    /\ route = "drizzle"
    /\ store = <<>>
    /\ categories = {}
    /\ cache = {}
    /\ nextId = 1
    /\ pc = "idle"
    /\ apiKey = NoHeader
    /\ body = <<>>
    /\ idx = 0
    /\ results = <<>>
    /\ errors = <<>>
    /\ status = 0
    /\ served = 0
    /\ allOk = TRUE

----------------------------------------------------------------------------
(* Part III: BaseScraper.validateAndNormalizeTorrent                       *)
(*                                                                         *)
(* Text values are sequences of one-character strings; an absent property  *)
(* is the one-element sequence Missing and null is NullText, so that every *)
(* value of a text field can be compared with every other.                 *)

Missing == <<Undef>>
NullText == <<Null>>

\* JavaScript truthiness of a text-valued property
TruthyText(s) == s # Missing /\ s # NullText /\ s # <<>>

\* [a-fA-F0-9]
HexChars == {"0", "1", "2", "3", "4", "5", "6", "7", "8", "9",
             "a", "b", "c", "d", "e", "f", "A", "B", "C", "D", "E", "F"}

\* String.prototype.toLowerCase, per character
toLowerCase(ch) ==
    CASE ch = "A" -> "a" [] ch = "B" -> "b" [] ch = "C" -> "c"
      [] ch = "D" -> "d" [] ch = "E" -> "e" [] ch = "F" -> "f"
      [] ch = "T" -> "t" [] ch = "I" -> "i" [] ch = "H" -> "h"
      [] ch = "O" -> "o" [] ch = "S" -> "s" [] ch = "U" -> "u"
      [] ch = "P" -> "p" [] ch = "W" -> "w"
      [] OTHER -> ch

Lowered(s) == [k \in 1..Len(s) |-> toLowerCase(s[k])]

\* the literal part and the repetition count of /btih:([a-fA-F0-9]{40})/i
Btih == <<"b", "t", "i", "h", ":">>
HashLen == 40

\* the regular expression matches with its literal starting at position p
MatchAt(s, p) ==
    /\ p + Len(Btih) - 1 + HashLen <= Len(s)
    /\ Lowered(SubSeq(s, p, p + Len(Btih) - 1)) = Btih
    /\ \A k \in (p + Len(Btih))..(p + Len(Btih) - 1 + HashLen) : s[k] \in HexChars

extractInfoHash(magnetLink) ==
    IF ~TruthyText(magnetLink) THEN NullText
    ELSE LET ps == { p \in 1..Len(magnetLink) : MatchAt(magnetLink, p) }
         IN  IF ps = {} THEN NullText
             ELSE LET p == CHOOSE q \in ps : \A o \in ps : q <= o
                  IN  Lowered(SubSeq(magnetLink, p + Len(Btih),
                                     p + Len(Btih) - 1 + HashLen))

\* \s
Whitespace == {" ", "\t", "\n", "\r"}

\* .replace(/\s+/g, ' '): every run of whitespace becomes one space
RECURSIVE CollapseWhitespace(_)
CollapseWhitespace(s) ==
    IF s = <<>> THEN <<>>
    ELSE IF Head(s) \in Whitespace
         THEN IF Len(s) > 1 /\ s[2] \in Whitespace
              THEN CollapseWhitespace(Tail(s))
              ELSE <<" ">> \o CollapseWhitespace(Tail(s))
         ELSE <<Head(s)>> \o CollapseWhitespace(Tail(s))

\* .trim()
RECURSIVE TrimStart(_)
TrimStart(s) ==
    IF s # <<>> /\ Head(s) \in Whitespace THEN TrimStart(Tail(s)) ELSE s

RECURSIVE TrimEnd(_)
TrimEnd(s) ==
    IF s # <<>> /\ s[Len(s)] \in Whitespace
    THEN TrimEnd(SubSeq(s, 1, Len(s) - 1)) ELSE s

cleanText(text) ==
    IF ~TruthyText(text) THEN <<>>
    ELSE TrimEnd(TrimStart(CollapseWhitespace(text)))

\* the shortest title the normalizer keeps
MinTitleLen == 3

\* the value validateAndNormalizeTorrent returns for an invalid record
NullResult == [isNull |-> TRUE]

\* a || b on text values
OrText(a, b) == IF TruthyText(a) THEN a ELSE b

\* A tracker of the input is a string (isObject FALSE, url its text) or an
\* object with a url property (isObject TRUE; url Missing: no such property).
StringTracker(url) == [isObject |-> FALSE, url |-> url]
ObjectTracker(url) == [isObject |-> TRUE, url |-> url]

\* tracker.url: a string has no url property
UrlProperty(tracker) == IF tracker.isObject THEN tracker.url ELSE Missing

\* characters a URL scheme is made of
SchemeChars == {"a", "c", "d", "e", "g", "h", "m", "n", "p", "s", "t",
                "u", "w", "U", "D", "P", "W", "S"}

\* new URL(url).protocol without its colon: the characters before the first
\* ":" of the trimmed text, lowercased; Missing when new URL(url) throws
Protocol(url) ==
    LET t      == TrimEnd(TrimStart(url))
        colons == { k \in 1..Len(t) : t[k] = ":" }
    IN  IF colons = {} THEN Missing
        ELSE LET c == CHOOSE k \in colons : \A o \in colons : k <= o
             IN  IF c = 1 \/ \E k \in 1..(c - 1) : t[k] \notin SchemeChars
                 THEN Missing
                 ELSE Lowered(SubSeq(t, 1, c - 1))

validProtocols == {<<"h", "t", "t", "p">>, <<"h", "t", "t", "p", "s">>,
                   <<"u", "d", "p">>, <<"w", "s">>, <<"w", "s", "s">>}

isValidTrackerUrl(url) == TruthyText(url) /\ Protocol(url) \in validProtocols

\* tracker && tracker.url && this.isValidTrackerUrl(tracker.url)
KeepsTracker(tracker) ==
    /\ (tracker.isObject \/ TruthyText(tracker.url))
    /\ TruthyText(UrlProperty(tracker))
    /\ isValidTrackerUrl(UrlProperty(tracker))

\* normalized.trackers.filter(...).map(tracker => ({url: tracker.url.trim()}))
FilterTrackers(trackers) ==
    LET kept == SelectSeq(trackers, KeepsTracker)
    IN  [k \in 1..Len(kept) |-> TrimEnd(TrimStart(kept[k].url))]

\* the normalized object before validation
\* (the fields the validation reads, the trackers and the id)
Normalized(id, raw) ==
    [isNull     |-> FALSE,
     id         |-> id,
     title      |-> cleanText(raw.title),
     magnetLink |-> OrText(raw.magnetLink, NullText),
     infoHash   |-> OrText(raw.infoHash,
                           IF TruthyText(raw.magnetLink)
                           THEN extractInfoHash(raw.magnetLink)
                           ELSE NullText),
     trackers   |-> raw.trackers]

\* "Ensure we have either magnet link or info hash"
LacksIdentityNever(n) == FALSE

LacksIdentity(n) == ~TruthyText(n.magnetLink) /\ ~TruthyText(n.infoHash)

validateAndNormalizeTorrent(id, raw) ==
    IF raw = NullResult \/ ~TruthyText(raw.title)
    THEN NullResult
    ELSE LET n == Normalized(id, raw)
         IN  IF ~TruthyText(n.title) \/ Len(n.title) < MinTitleLen THEN NullResult
             ELSE IF LacksIdentity(n) THEN NullResult
             ELSE [n EXCEPT !.trackers = FilterTrackers(n.trackers)]

\* ---- inputs -------------------------------------------------------------

Rep(ch, n) == [k \in 1..n |-> ch]

MagnetPrefix == <<"m", "a", "g", "n", "e", "t", ":", "?", "x", "t", "=",
                  "u", "r", "n", ":">>

Magnet(hex) == MagnetPrefix \o Btih \o hex

Titles == {Missing, <<>>, <<" ", " ", " ">>, <<"a", "b">>,
           <<" ", "a", "b", " ">>, <<"I", "S", "O">>,
           <<"I", " ", "\t", "O">>}

MagnetLinks == {Missing, NullText, <<>>,
                Magnet(Rep("a", HashLen)),
                Magnet(Rep("A", HashLen)),
                Magnet(Rep("a", HashLen - 1)),
                Magnet(Rep("a", HashLen + 1)),
                Magnet(Rep("g", HashLen)),
                Magnet(Rep("3", HashLen) \o <<"&", "d", "n", "=", "x">>),
                MagnetPrefix \o <<"B", "T", "I", "H", ":">> \o Rep("F", HashLen),
                <<"h", "t", "t", "p", ":", "/", "/", "x">>}

InfoHashes == {Missing, NullText, <<>>, Rep("b", HashLen), <<"b", "b">>}

\* tracker URLs: allowed schemes, another scheme, no scheme
UdpUrl == <<"u", "d", "p", ":", "/", "/", "t">>
HttpUrl == <<"h", "t", "t", "p", ":", "/", "/", "t">>
PaddedWsUrl == <<" ", "W", "S", ":", "/", "/", "t", " ">>
MagnetUrl == <<"m", "a", "g", "n", "e", "t", ":", "?", "x">>
NoUrl == <<"n", "o", " ", "u", "r", "l">>

\* trackers as the scrapers hand them over: YTS lists plain strings, the
\* documented shape is an object with a url
TrackerValues == {StringTracker(UdpUrl), ObjectTracker(UdpUrl),
                  ObjectTracker(HttpUrl), ObjectTracker(PaddedWsUrl),
                  ObjectTracker(MagnetUrl), ObjectTracker(NoUrl)}

\* bound of the tracker lists
MaxTrackers == 2

TrackerLists == UNION { [1..n -> TrackerValues] : n \in 0..MaxTrackers }

RawRecords ==
    {NullResult} \cup
    { [isNull |-> FALSE, title |-> t, magnetLink |-> m, infoHash |-> h,
       trackers |-> tr] :
        t \in Titles, m \in MagnetLinks, h \in InfoHashes, tr \in TrackerLists }

\* values generateId() may return
Ids == {"id-1", "id-2"}

NormIdle ==
    /\ torrentData = NullResult
    /\ normalized = NullResult
    /\ previous = NullResult
    /\ npc = "input"

NormInit ==
    /\ torrentData \in RawRecords
    /\ normalized = NullResult
    /\ previous = NullResult
    /\ npc = "input"

\* one call validateAndNormalizeTorrent(torrentData)
Normalize ==
    /\ npc = "input"
    /\ \E id \in Ids : normalized' = validateAndNormalizeTorrent(id, torrentData)
    /\ npc' = "returned"
    /\ UNCHANGED <<torrentData, previous>>

\* a later run scrapes the same record: validateAndNormalizeTorrent is called
\* for it again
NormalizeAgain ==
    /\ npc = "returned"
    /\ previous' = normalized
    /\ \E id \in Ids : normalized' = validateAndNormalizeTorrent(id, torrentData)
    /\ npc' = "repeated"
    /\ UNCHANGED torrentData

NormNext == Normalize \/ NormalizeAgain

----------------------------------------------------------------------------
(* Properties of the normalizer                                            *)

\* C3: a raw record with neither a magnetLink nor an infoHash is rejected:
\* validateAndNormalizeTorrent returns null for it, never a record.
C3_NoIdentityIsRejected ==
    (/\ npc = "returned"
     /\ torrentData # NullResult
     /\ ~TruthyText(torrentData.magnetLink)
     /\ ~TruthyText(torrentData.infoHash))
    => normalized = NullResult

\* a record with a valid title and no identity has been normalized to null
C3_Witness ==
    /\ npc = "returned"
    /\ torrentData # NullResult
    /\ torrentData.title = <<"I", "S", "O">>
    /\ torrentData.magnetLink = Missing
    /\ torrentData.infoHash = <<>>
    /\ normalized = NullResult

\* the value of the btih parameter of a magnet link: the characters after
\* the first "btih:" up to the next "&" or the end; Missing without "btih:"
BtihValue(m) ==
    LET starts == { p \in 1..(Len(m) - Len(Btih) + 1) :
                      Lowered(SubSeq(m, p, p + Len(Btih) - 1)) = Btih }
    IN  IF starts = {} THEN Missing
        ELSE LET p    == CHOOSE q \in starts : \A o \in starts : q <= o
                 rest == SubSeq(m, p + Len(Btih), Len(m))
                 amps == { k \in 1..Len(rest) : rest[k] = "&" }
             IN  IF amps = {} THEN rest
                 ELSE SubSeq(rest, 1, (CHOOSE a \in amps : \A o \in amps : a <= o) - 1)

\* the hash the magnet link carries: its btih value lowercased when that is
\* exactly HashLen hex characters, absent otherwise
HashOfMagnet(m) ==
    LET v == BtihValue(m)
    IN  IF v # Missing /\ Len(v) = HashLen /\ \A k \in 1..Len(v) : v[k] \in HexChars
        THEN Lowered(v) ELSE NullText

\* C16: extractInfoHash returns the lowercased 40-character hash when the
\* btih value of the magnet link is exactly 40 hex characters, and null when
\* it has any other length or is missing (seen in the infoHash of a record
\* normalized from a magnet link alone).
C16_InfoHashOnlyFromExactLength ==
    (/\ npc = "returned"
     /\ normalized # NullResult
     /\ ~TruthyText(torrentData.infoHash)
     /\ TruthyText(torrentData.magnetLink))
    => normalized.infoHash = HashOfMagnet(torrentData.magnetLink)

\* the URL text of an input tracker
TrackerText(tracker) == tracker.url

HasAllowedScheme(tracker) ==
    TruthyText(TrackerText(tracker)) /\ Protocol(TrackerText(tracker)) \in validProtocols

\* the input trackers with an allowed scheme, in their order
AllowedTrackers(trackers) ==
    LET kept == SelectSeq(trackers, HasAllowedScheme)
    IN  [k \in 1..Len(kept) |-> TrimEnd(TrimStart(TrackerText(kept[k])))]

\* C18: normalization never rejects a record because of its trackers, and
\* the trackers of the normalized record are exactly the input trackers whose
\* URL has a scheme in {http, https, udp, ws, wss}: the others are dropped
\* one by one, every tracker with an allowed scheme is kept.
C18_TrackersFilteredByScheme ==
    (npc = "returned" /\ torrentData # NullResult) =>
        /\ (normalized = NullResult) <=>
              (\A id \in Ids : validateAndNormalizeTorrent(id,
                   [torrentData EXCEPT !.trackers = <<>>]) = NullResult)
        /\ normalized # NullResult =>
              normalized.trackers = AllowedTrackers(torrentData.trackers)

\* C19: normalization is deterministic: normalizing the same raw record
\* twice yields two records equal in every field (the normalized record has
\* no timestamp field).
C19_NormalizationIsDeterministic ==
    npc = "repeated" => normalized = previous

\* torrentDataSchema of the ingest route, over the fields modelled here.
\* z.string() accepts a string and nothing else; .optional() lets the
\* property be undefined, and null is not undefined.
MaxTitleLength == 500

IsString(v) == v # Missing /\ v # NullText

\* z.string().url(): new URL(v) does not throw
IsUrlString(v) == IsString(v) /\ Protocol(v) # Missing

torrentDataSchemaAccepts(n) ==
    /\ IsString(n.title) /\ Len(n.title) >= 1 /\ Len(n.title) <= MaxTitleLength
    /\ n.magnetLink = Missing \/ IsUrlString(n.magnetLink)
    /\ n.infoHash = Missing \/ IsString(n.infoHash)
    /\ \A k \in 1..Len(n.trackers) : IsUrlString(n.trackers[k])

\* C25: every record validateAndNormalizeTorrent accepts satisfies the
\* per-record schema of POST /ingest, so a batch of normalizer output is
\* never rejected with VALIDATION_ERROR.
C25_NormalizedSatisfiesIngestSchema ==
    ~normalized.isNull => torrentDataSchemaAccepts(normalized)

----------------------------------------------------------------------------
(* Part IV: the worker's handlers scheduled and handleScrapeRequest, with  *)
(* runScrapers, BaseScraper.scrape and the scrapers' page loops.           *)
(*                                                                         *)
(* A task is one callback of concurrentScrapers.map. It awaits one         *)
(* makeRequest at a time: "delay" while makeRequest sleeps config.delay,   *)
(* "inflight" from the fetch until retry() returns the response or throws  *)
(* (the attempts within retry are the subject of Part II).                 *)

\* the two entry points of the worker that start a run
Runs == {"scheduled", "manual"}

\* keys of the scrapers object
Registered == {"yts", "1337x"}

\* scraper names a request may carry ("nyaa" is not registered)
Names == Registered \cup {"nyaa"}

\* CONFIG
maxConcurrentScrapers == 2
defaultScrapers == <<"yts", "1337x">>

\* bounds of the requests
MaxNames == 3
MaxPages == 2

\* options.maxPages is absent
NoMaxPages == 0

\* const { maxPages = 5 } / { maxPages = 3 } in scrapePages
DefaultMaxPages(name) == IF name = "yts" THEN 5 ELSE 3

\* the categories array of scrapePopularTorrents
NumCategories == 8

IsInjective(s) == \A a, b \in DOMAIN s : s[a] = s[b] => a = b

NameLists == UNION { [1..n -> Names] : n \in 0..MaxNames }

OptionSets == [query : BOOLEAN, maxPages : {NoMaxPages} \cup (1..MaxPages)]

\* options = {} of runScrapers(CONFIG.defaultScrapers)
NoOptions == [query |-> FALSE, maxPages |-> NoMaxPages]

\* what one makeRequest of a listing page ends with: a page with torrents,
\* a page without torrents, a response with an HTTP error status, or the
\* error retry() throws when every attempt was rejected
RequestOutcomes == {"ok", "empty", "http", "rejected"}

NoResult == [settled |-> FALSE]

Result(ok, site, error, torrents) ==
    [settled |-> TRUE, success |-> ok, site |-> site, error |-> error,
     torrents |-> torrents]

NoError == "none"

SiteName(name) == IF name = "yts" THEN YTSConfig.name ELSE Config1337x.name

\* the value of maxPages in scrapePages
maxPagesOf(name, opts) ==
    IF opts.maxPages = NoMaxPages THEN DefaultMaxPages(name) ELSE opts.maxPages

\* number of listing targets the loop of the scraper runs over
Targets(name, opts) ==
    IF name = "yts"
    THEN IF opts.query THEN 1 ELSE maxPagesOf(name, opts)
    ELSE IF opts.query THEN maxPagesOf(name, opts) ELSE NumCategories

\* scraperNames.slice(0, CONFIG.maxConcurrentScrapers)
Slice(names) ==
    SubSeq(names, 1, IF Len(names) < maxConcurrentScrapers
                     THEN Len(names) ELSE maxConcurrentScrapers)

\* the callback of concurrentScrapers.map up to its first await
StartTask(name) ==
    IF name \notin Registered
    THEN [name |-> name, phase |-> "settled", target |-> 0, got |-> FALSE,
          result |-> Result(FALSE, name, "not found", FALSE)]
    ELSE [name |-> name, phase |-> "delay", target |-> 1, got |-> FALSE,
          result |-> NoResult]

\* scrape() returns: success with the torrents collected
Succeed(t, got) ==
    [t EXCEPT !.phase = "settled", !.target = 0, !.got = FALSE,
              !.result = Result(TRUE, SiteName(t.name), NoError, got)]

\* scrapePages throws: the catch of scrape() builds the failure
Fail(t, error) ==
    [t EXCEPT !.phase = "settled", !.target = 0, !.got = FALSE,
              !.result = Result(FALSE, SiteName(t.name), error, FALSE)]

\* the loop goes on to its next target, or ends
Continue(t, opts, got) ==
    IF t.target < Targets(t.name, opts)
    THEN [t EXCEPT !.phase = "delay", !.target = t.target + 1, !.got = got]
    ELSE Succeed(t, got)

\* the scraper's handling of what makeRequest ended with
AfterRequest(t, opts, outcome) ==
    LET got == t.got \/ outcome = "ok" IN
    IF t.name = "yts" /\ opts.query
    THEN \* scrapeSearchResults of YTS: one request
         CASE outcome = "rejected" -> Fail(t, "network")
           [] outcome = "http"     -> Fail(t, "YTS API search failed")
           [] OTHER                -> Succeed(t, got)
    ELSE IF t.name = "yts"
    THEN \* scrapeLatestMovies: !response.ok continues
         IF outcome = "rejected" THEN Fail(t, "network")
         ELSE Continue(t, opts, got)
    ELSE IF opts.query
    THEN \* scrapeSearchResults of 1337x: breaks on a page without results
         CASE outcome = "rejected" -> Fail(t, "network")
           [] outcome = "empty"    -> Succeed(t, got)
           [] OTHER                -> Continue(t, opts, got)
    ELSE \* scrapePopularTorrents: the catch inside the loop swallows
         Continue(t, opts, got)

RunIdle ==
    /\ runPc = [r \in Runs |-> "idle"]
    /\ scraperNames = [r \in Runs |-> <<>>]
    /\ options = [r \in Runs |-> NoOptions]
    /\ tasks = [r \in Runs |-> <<>>]
    /\ runResults = [r \in Runs |-> <<>>]
    /\ response = [r \in Runs |-> 0]
    /\ delivery = [r \in Runs |-> "pending"]
    /\ ingested = {}
    /\ cancelAsked = [r \in Runs |-> FALSE]

\* runScrapers(scraperNames, options) up to await Promise.all
runScrapers(r, names, opts) ==
    /\ runPc[r] = "idle"
    /\ runPc' = [runPc EXCEPT ![r] = "scraping"]
    /\ scraperNames' = [scraperNames EXCEPT ![r] = names]
    /\ options' = [options EXCEPT ![r] = opts]
    /\ tasks' = [tasks EXCEPT ![r] =
                   [k \in 1..Len(Slice(names)) |-> StartTask(Slice(names)[k])]]
    /\ UNCHANGED <<runResults, response, delivery, ingested, cancelAsked>>

\* scheduled(event, env, ctx)
Scheduled == runScrapers("scheduled", defaultScrapers, NoOptions)

\* handleScrapeRequest(request, env) for a POST with a JSON body
HandleScrapeRequest(names, opts) == runScrapers("manual", names, opts)

\* makeRequest: the delay is over, the request is issued
TaskDelayOver(r, k) ==
    /\ runPc[r] = "scraping"
    /\ tasks[r][k].phase = "delay"
    /\ tasks' = [tasks EXCEPT ![r][k].phase = "inflight"]
    /\ UNCHANGED <<runPc, scraperNames, options, runResults, response, delivery,
                   ingested, cancelAsked>>

\* makeRequest ends and the scraper goes on
TaskRequestDone(r, k, outcome) ==
    /\ runPc[r] = "scraping"
    /\ tasks[r][k].phase = "inflight"
    /\ tasks' = [tasks EXCEPT ![r][k] = AfterRequest(tasks[r][k], options[r], outcome)]
    /\ UNCHANGED <<runPc, scraperNames, options, runResults, response, delivery,
                   ingested, cancelAsked>>

\* await Promise.all(promises); results.push(...scraperResults); return
RunScrapersReturn(r) ==
    /\ runPc[r] = "scraping"
    /\ \A k \in 1..Len(tasks[r]) : tasks[r][k].phase = "settled"
    /\ runResults' = [runResults EXCEPT ![r] =
                        [k \in 1..Len(tasks[r]) |-> tasks[r][k].result]]
    /\ runPc' = [runPc EXCEPT ![r] = "returned"]
    /\ UNCHANGED <<scraperNames, options, tasks, response, delivery, ingested,
                   cancelAsked>>

\* allTorrents of sendToBackend is not empty
HasTorrents(rs) == \E k \in 1..Len(rs) : rs[k].success /\ rs[k].torrents

\* how the submission of a run's results can end:
\*   "declined"      body.sendToBackend === false (manual runs only)
\*   "unconfigured"  sendToBackend returns: no ingestApiKey or backendUrl
\*   "empty"         sendToBackend returns: allTorrents.length === 0
\*   "delivered"     every batch was accepted by the backend
\*   "failed"        sendBatchWithRetry threw after CONFIG.maxRetries retries
AllSendOutcomes == {"declined", "unconfigured", "empty", "delivered", "failed"}

SendOutcomes(r, rs) ==
    (IF r = "manual" THEN {"declined"} ELSE {}) \cup {"unconfigured"} \cup
    (IF HasTorrents(rs) THEN {"delivered", "failed"} ELSE {"empty"})

\* The listing page a source with a single listing target fetches, as
\* <<site, query, page>>: the YTS search (one request whatever maxPages is),
\* or page 1 of a one-page run.  While the page is unchanged, the records
\* scraped from it are the same in every run.
PageKey(name, opts) ==
    IF name = "yts" /\ opts.query THEN <<SiteName(name), TRUE, 0>>
    ELSE <<SiteName(name), opts.query, 1>>

\* allTorrents of sendToBackend, by the single listing page they come from:
\* every torrent of every successful result is pushed, nothing is filtered
SubmittedPages(r) ==
    { PageKey(tasks[r][k].name, options[r]) :
        k \in { i \in 1..Len(tasks[r]) :
                 /\ runResults[r][i].success
                 /\ runResults[r][i].torrents
                 /\ Targets(tasks[r][i].name, options[r]) = 1 } }

\* the rest of the handler: sendToBackend(results) and the answer
Complete(r, sent) ==
    /\ runPc[r] = "returned"
    /\ sent \in SendOutcomes(r, runResults[r])
    /\ runPc' = [runPc EXCEPT ![r] = "done"]
    /\ delivery' = [delivery EXCEPT ![r] = sent]
    /\ ingested' = IF sent = "delivered" THEN ingested \cup SubmittedPages(r)
                   ELSE ingested
    /\ response' = [response EXCEPT ![r] =
                      IF r = "scheduled" THEN 0
                      ELSE IF sent = "failed" THEN 500 ELSE 200]
    /\ UNCHANGED <<scraperNames, options, tasks, runResults, cancelAsked>>

\* the manual run is over: the worker takes the next POST /scrape
NextRequest ==
    /\ runPc["manual"] = "done"
    /\ runPc' = [runPc EXCEPT !["manual"] = "idle"]
    /\ scraperNames' = [scraperNames EXCEPT !["manual"] = <<>>]
    /\ options' = [options EXCEPT !["manual"] = NoOptions]
    /\ tasks' = [tasks EXCEPT !["manual"] = <<>>]
    /\ runResults' = [runResults EXCEPT !["manual"] = <<>>]
    /\ response' = [response EXCEPT !["manual"] = 0]
    /\ delivery' = [delivery EXCEPT !["manual"] = "pending"]
    /\ cancelAsked' = [cancelAsked EXCEPT !["manual"] = FALSE]
    /\ UNCHANGED ingested

\* The operator asks the worker to cancel the manual run in progress.  The
\* worker's fetch handler routes /scrape, /status and /health; any other
\* request is answered 404 Not Found and touches nothing of the run.
CancelRequest ==
    /\ runPc["manual"] = "scraping"
    /\ ~cancelAsked["manual"]
    /\ cancelAsked' = [cancelAsked EXCEPT !["manual"] = TRUE]
    /\ UNCHANGED <<runPc, scraperNames, options, tasks, runResults, response,
                   delivery, ingested>>

RunSteps ==
    \/ \E r \in Runs, k \in 1..maxConcurrentScrapers :
           k <= Len(tasks[r]) /\ TaskDelayOver(r, k)
    \/ \E r \in Runs, k \in 1..maxConcurrentScrapers, o \in RequestOutcomes :
           k <= Len(tasks[r]) /\ TaskRequestDone(r, k, o)
    \/ \E r \in Runs : RunScrapersReturn(r)
    \/ \E r \in Runs, sent \in AllSendOutcomes : Complete(r, sent)

\* manual runs, one after the other
RunNext ==
    \/ \E names \in NameLists, opts \in OptionSets : HandleScrapeRequest(names, opts)
    \/ RunSteps
    \/ NextRequest
    \/ CancelRequest

\* requests handled while a scheduled run is in progress
ConcurrentNameLists ==
    { s \in NameLists : Len(s) \in 1..maxConcurrentScrapers /\ IsInjective(s) }
ConcurrentOptionSets == { o \in OptionSets : o.maxPages = 1 }

\* the scheduled run and a manual run, handled concurrently
WorkerNext ==
    \/ Scheduled
    \/ \E names \in ConcurrentNameLists, opts \in ConcurrentOptionSets :
           HandleScrapeRequest(names, opts)
    \/ RunSteps

----------------------------------------------------------------------------
(* Properties of the runs                                                  *)

\* requests to sources that are in flight, over all scrapers and all runs
InFlight ==
    Cardinality({ rk \in Runs \X (1..maxConcurrentScrapers) :
                    /\ rk[2] <= Len(tasks[rk[1]])
                    /\ tasks[rk[1]][rk[2]].phase = "inflight" })

\* C9: at every moment at most maxConcurrentScrapers (2) requests to sources
\* are in flight, counted over all scrapers and all concurrently handled runs.
C9_GlobalInFlightCap == InFlight <= maxConcurrentScrapers

\* runScrapers of run r has returned
Returned(r) == runPc[r] \in {"returned", "done"}

HasOutcome(r, i) == i <= Len(runResults[r])

\* the i-th requested source failed terminally: its name is not registered,
\* or its scrape raised
FailedTerminally(r, i) ==
    \/ scraperNames[r][i] \notin Registered
    \/ HasOutcome(r, i) /\ ~runResults[r][i].success

\* C10: in a run where a source fails terminally, that source's outcome is
\* recorded with success = false and an error message, and every other
\* requested source is scraped to completion and its outcome returned.
C10_FailureOfOneSourceIsIsolated ==
    \A r \in Runs :
        (Returned(r) /\ \E i \in 1..Len(scraperNames[r]) : FailedTerminally(r, i))
        => \A j \in 1..Len(scraperNames[r]) :
              /\ HasOutcome(r, j)
              /\ FailedTerminally(r, j) =>
                    /\ ~runResults[r][j].success
                    /\ runResults[r][j].error # NoError

\* generateSummary(results): the counters and one sites entry per result
generateSummary(rs) ==
    [totalScrapers      |-> Len(rs),
     successfulScrapers |-> Cardinality({ k \in 1..Len(rs) : rs[k].success }),
     failedScrapers     |-> Cardinality({ k \in 1..Len(rs) : ~rs[k].success }),
     sites              |-> [k \in 1..Len(rs) |->
                               [name    |-> rs[k].site,
                                success |-> rs[k].success,
                                error   |-> rs[k].error]]]

\* C11: the result of a run holds exactly one outcome per requested source
\* name, however many names were requested: every requested source got its
\* task and has its entry in the summary.
C11_OneOutcomePerRequestedSource ==
    \A r \in Runs :
        Returned(r) =>
            /\ Len(tasks[r]) = Len(scraperNames[r])
            /\ Len(runResults[r]) = Len(scraperNames[r])
            /\ Len(generateSummary(runResults[r]).sites) = Len(scraperNames[r])

\* the single listing fetch of task k of run r ends in failure: the source
\* answers with an HTTP error status, or retry() throws after its last attempt
OnlyPageFetchFails(r, k) ==
    /\ k <= Len(tasks[r])
    /\ Targets(tasks[r][k].name, options[r]) = 1
    /\ \/ TaskRequestDone(r, k, "http")
       \/ TaskRequestDone(r, k, "rejected")

\* C12: a source none of whose page fetches succeeded has success = false in
\* its outcome, never success = true (here: a source with one listing page
\* whose fetch fails).
C12_NoPageFetchedMeansFailure ==
    [][ \A r \in Runs, k \in 1..maxConcurrentScrapers :
            OnlyPageFetchFails(r, k) =>
                /\ tasks'[r][k].phase = "settled"
                /\ ~tasks'[r][k].result.success ]_vars

\* C13: a well-formed POST /scrape is always answered 200, whatever source
\* failures or backend-submission failures happen during the run.
C13_ManualRunAnswers200 ==
    runPc["manual"] = "done" => response["manual"] = 200

\* torrents of the run's successful results did not reach the backend: the
\* worker skipped the submission or a batch exhausted its retries (a caller
\* that asked for sendToBackend: false is not counted)
Undelivered(r) ==
    /\ runPc[r] = "done"
    /\ HasTorrents(runResults[r])
    /\ delivery[r] \in {"unconfigured", "failed"}

\* the answer of the manual run reports success: Response.json({success:
\* true, ...}) is the 200 answer, {success: false, error} the 500 answer
ReportsSuccess(r) == response[r] = 200

\* C14: a run whose scraped records were not delivered to the backend (a
\* batch exhausted its retries, or the submission was skipped) never reports
\* success: its result reports the failure.
C14_UndeliveredIsReported ==
    Undelivered("manual") => ~ReportsSuccess("manual")

\* C15: a run over a source and query whose pages are unchanged since an
\* earlier run submits none of the earlier run's records to the backend
\* again: what was already submitted is filtered out before submission.
C15_SecondRunSubmitsNothingAgain ==
    [][ Complete("manual", "delivered")
            => SubmittedPages("manual") \cap ingested = {} ]_vars

\* listing fetches task k of run r has issued so far, the one in flight
\* included: its loop is at its target-th target
ListingFetches(r, k) == tasks[r][k].target

\* C20: a scraper run issues at most maxPages listing-page fetches to its
\* source, one per page or category target, whatever the options are.
C20_AtMostMaxPagesListingFetches ==
    \A r \in Runs, k \in 1..maxConcurrentScrapers :
        (k <= Len(tasks[r]) /\ tasks[r][k].phase = "inflight")
        => ListingFetches(r, k) <= maxPagesOf(tasks[r][k].name, options[r])

\* C22: an in-progress run can be cancelled: once cancellation has been
\* requested, no new fetch is started for the run (fetches in flight finish
\* and the run returns what it has, marked cancelled).
C22_NoFetchStartsAfterCancel ==
    [][ \A k \in 1..maxConcurrentScrapers :
            (cancelAsked["manual"] /\ k <= Len(tasks["manual"]))
            => ~TaskDelayOver("manual", k) ]_vars

----------------------------------------------------------------------------
(* Part V: helpers.parseFileSize                                           *)
(*                                                                         *)
(* A JavaScript number is [nan |-> TRUE] for NaN and [nan |-> FALSE,       *)
(* val |-> n] for the integer n.                                           *)

NaN == [nan |-> TRUE]
Num(n) == [nan |-> FALSE, val |-> n]

Digits == {"0", "1", "2", "3", "4", "5", "6", "7", "8", "9"}

\* [\d.,]
NumberChars == Digits \cup {".", ","}

\* String.prototype.toUpperCase, per character
toUpperCase(ch) ==
    CASE ch = "k" -> "K" [] ch = "m" -> "M" [] ch = "g" -> "G"
      [] ch = "t" -> "T" [] ch = "b" -> "B" [] ch = "p" -> "P"
      [] ch = "a" -> "A" [] ch = "c" -> "C"
      [] OTHER -> ch

Uppered(s) == [k \in 1..Len(s) |-> toUpperCase(s[k])]

\* the longest prefix of s made of characters of S, and what follows it
RECURSIVE TakeWhile(_, _)
TakeWhile(s, S) ==
    IF s # <<>> /\ Head(s) \in S THEN <<Head(s)>> \o TakeWhile(Tail(s), S)
    ELSE <<>>

DropPrefix(s, n) == SubSeq(s, n + 1, Len(s))

\* [KMGT]?B?
UnitStrings ==
    {<<>>, <<"B">>} \cup { <<u>> : u \in {"K", "M", "G", "T"} }
                    \cup { <<u, "B">> : u \in {"K", "M", "G", "T"} }

\* the multipliers table; multipliers[unit] || 1
Multiplier(unit) ==
    CASE unit \in {<<"K">>, <<"K", "B">>} -> 1024
      [] unit \in {<<"M">>, <<"M", "B">>} -> 1024 * 1024
      [] unit \in {<<"G">>, <<"G", "B">>} -> 1024 * 1024 * 1024
      [] unit \in {<<"T">>, <<"T", "B">>} -> 1024 * 1024 * 1024 * 1024
      [] OTHER -> 1

\* number.replace(',', ''): the first comma is removed
RECURSIVE RemoveFirstComma(_)
RemoveFirstComma(s) ==
    IF s = <<>> THEN <<>>
    ELSE IF Head(s) = "," THEN Tail(s)
    ELSE <<Head(s)>> \o RemoveFirstComma(Tail(s))

DigitValue(ch) ==
    CASE ch = "0" -> 0 [] ch = "1" -> 1 [] ch = "2" -> 2 [] ch = "3" -> 3
      [] ch = "4" -> 4 [] ch = "5" -> 5 [] ch = "6" -> 6 [] ch = "7" -> 7
      [] ch = "8" -> 8 [] ch = "9" -> 9

RECURSIVE ToInt(_)
ToInt(ds) ==
    IF ds = <<>> THEN 0
    ELSE 10 * ToInt(SubSeq(ds, 1, Len(ds) - 1)) + DigitValue(ds[Len(ds)])

RECURSIVE Pow10(_)
Pow10(n) == IF n = 0 THEN 1 ELSE 10 * Pow10(n - 1)

\* parseFloat(str) on a string of digits, dots and commas: the longest prefix
\* digits [. digits] is the value, as integer part, fraction digits and their
\* count; NaN when that prefix holds no digit
parseFloat(str) ==
    LET int   == TakeWhile(str, Digits)
        after == DropPrefix(str, Len(int))
        frac  == IF after # <<>> /\ Head(after) = "."
                 THEN TakeWhile(Tail(after), Digits) ELSE <<>>
    IN  IF int = <<>> /\ frac = <<>> THEN [nan |-> TRUE]
        ELSE [nan |-> FALSE, int |-> ToInt(int), frac |-> ToInt(frac),
              scale |-> Pow10(Len(frac))]

\* Math.floor(value * multiplier), for value = int + frac / scale
FloorTimes(v, mult) ==
    IF v.nan THEN NaN
    ELSE Num(v.int * mult + v.frac * (mult \div v.scale)
                          + (v.frac * (mult % v.scale)) \div v.scale)

parseFileSize(str) ==
    IF ~TruthyText(str) THEN Num(0)
    ELSE LET cleanStr == TrimEnd(TrimStart(Uppered(str)))
             number   == TakeWhile(cleanStr, NumberChars)
             rest     == DropPrefix(cleanStr, Len(number))
             unit     == DropPrefix(rest, Len(TakeWhile(rest, Whitespace)))
         IN  IF number = <<>> \/ unit \notin UnitStrings THEN Num(0)
             ELSE FloorTimes(parseFloat(RemoveFirstComma(number)),
                             Multiplier(unit))

\* ---- inputs -------------------------------------------------------------

SizeNumbers ==
    {<<"1", ".", "5">>, <<"5", "0", "0">>, <<"7">>, <<"0", ".", "5">>,
     <<".", "5">>, <<"5", ".">>, <<".">>, <<",">>, <<".", ".">>,
     <<"1", ",", "2", "3", "4">>, <<"1", ",", "2", "3", "4", ",", "5", "6", "7">>,
     <<"1", ".", "2", ".", "3">>, <<>>}

SizeGaps == {<<>>, <<" ">>, <<" ", " ">>}

SizeUnits == {<<>>, <<"B">>, <<"K", "B">>, <<"k", "b">>, <<"K">>,
              <<"M", "B">>, <<"M", "b">>, <<"P", "B">>, <<"B", "K">>}

\* numbers small enough for the GB multiplier
SmallSizeNumbers == {<<"1", ".", "5">>, <<"1">>, <<"0", ".", "5">>, <<".">>}

SizeStrings ==
    {Missing, NullText, <<"a", "b", "c">>, <<" ", "7", " ", "K", "B", " ">>}
    \cup { n \o g \o u : n \in SizeNumbers, g \in SizeGaps, u \in SizeUnits }
    \cup { n \o <<" ">> \o u : n \in SmallSizeNumbers, u \in {<<"G", "B">>, <<"g">>} }

ParseIdle ==
    /\ sizeStr = Missing
    /\ sizeBytes = Num(0)
    /\ spc = "input"

ParseInit ==
    /\ sizeStr \in SizeStrings
    /\ sizeBytes = Num(0)
    /\ spc = "input"

\* one call parseFileSize(sizeStr)
ParseSize ==
    /\ spc = "input"
    /\ sizeBytes' = parseFileSize(sizeStr)
    /\ spc' = "returned"
    /\ UNCHANGED sizeStr

\* the scraper reads the size of the next row
NextSize ==
    /\ spc = "returned"
    /\ sizeStr' \in SizeStrings
    /\ sizeBytes' = Num(0)
    /\ spc' = "input"

ParseNext == ParseSize \/ NextSize

----------------------------------------------------------------------------
(* Properties of parseFileSize                                             *)

\* C17: parseFileSize returns a non-negative integer for every input, never
\* a non-number: "1.5 GB" gives 1610612736, "500 MB" gives 524288000, and an
\* empty, non-string or unparseable input gives exactly 0.
C17_SizeIsNonNegativeInteger ==
    spc = "returned" =>
        /\ ~sizeBytes.nan
        /\ sizeBytes.val >= 0
        /\ sizeStr = <<"1", ".", "5", " ", "G", "B">> => sizeBytes.val = 1610612736
        /\ sizeStr = <<"5", "0", "0", " ", "M", "B">> => sizeBytes.val = 524288000
        /\ sizeStr \in {Missing, NullText, <<>>, <<"a", "b", "c">>} => sizeBytes.val = 0

----------------------------------------------------------------------------
(* Part VI: the stats object of a scraper instance                         *)
(*                                                                         *)
(* The scrapers are created once (const scrapers = {...}); every run calls *)
(* scrape() on the same instance, and the result scrape() returns holds    *)
(* stats: this.stats, the object itself.                                   *)

\* bounds of the stats model
MaxClock == 4
MaxStatPages == 2
MaxFound == 2

\* startTime / endTime before the first scrape
NoTime == 0 - 1

\* this.stats as the constructor builds it
InitialStats ==
    [totalPages |-> 0, totalTorrents |-> 0, successful |-> 0, failed |-> 0,
     startTime |-> NoTime, endTime |-> NoTime]

StatsIdle ==
    /\ stats = InitialStats
    /\ clock = 0
    /\ spos = [c \in Callers |-> "idle"]
    /\ snap = [c \in Callers |-> InitialStats]

\* scrape(): this.stats.startTime = new Date(), then await scrapePages
ScrapeStart(c) ==
    /\ spos[c] = "idle"
    /\ clock < MaxClock
    /\ stats' = [stats EXCEPT !.startTime = clock]
    /\ clock' = clock + 1
    /\ spos' = [spos EXCEPT ![c] = "scraping"]
    /\ UNCHANGED snap

\* a listing page was parsed: this.stats.totalPages++
PageCounted(c) ==
    /\ spos[c] = "scraping"
    /\ stats.totalPages < MaxStatPages
    /\ stats' = [stats EXCEPT !.totalPages = @ + 1]
    /\ UNCHANGED <<clock, spos, snap>>

\* scrapePages resolved with n torrents: scrape() returns
\* {success: true, ..., stats: this.stats}
ScrapeSucceeds(c, n) ==
    /\ spos[c] = "scraping"
    /\ clock < MaxClock
    /\ stats' = [stats EXCEPT !.totalTorrents = n, !.successful = n,
                              !.endTime = clock]
    /\ clock' = clock + 1
    /\ spos' = [spos EXCEPT ![c] = "returned"]
    /\ snap' = [snap EXCEPT ![c] = stats']

\* scrapePages threw: scrape() returns {success: false, ..., stats: this.stats}
ScrapeFails(c) ==
    /\ spos[c] = "scraping"
    /\ clock < MaxClock
    /\ stats' = [stats EXCEPT !.failed = 1, !.endTime = clock]
    /\ clock' = clock + 1
    /\ spos' = [spos EXCEPT ![c] = "returned"]
    /\ snap' = [snap EXCEPT ![c] = stats']

StatsNext ==
    \/ \E c \in Callers : ScrapeStart(c)
    \/ \E c \in Callers : PageCounted(c)
    \/ \E c \in Callers, n \in 0..MaxFound : ScrapeSucceeds(c, n)
    \/ \E c \in Callers : ScrapeFails(c)

----------------------------------------------------------------------------
(* Properties of the stats                                                 *)

\* the stats a caller reads from the result it was given: result.stats is
\* this.stats
ResultStats(c) == stats

\* C21: the stats of a result that scrape() has returned never change
\* afterwards, whatever later or concurrent runs of the same scraper do.
C21_ReturnedStatsAreImmutable ==
    \A c \in Callers : spos[c] = "returned" => ResultStats(c) = snap[c]

----------------------------------------------------------------------------
(* Part VII: the KV kvCache client                                           *)
(*                                                                         *)
(* KVCacheClient keeps a Map from key to {value, expiresAt, metadata}.     *)
(* Times are in whole seconds.                                             *)

\* bound of the kvCache model: the number of times the clock moves on
MaxAdvances == 2

\* private defaultTTL: number = 3600
defaultTTL == 3600

CacheKeys == {"k1", "k2"}
CacheValues == {"a", "b"}
\* the ttl values callers pass in options
Ttls == {0, 1}
\* options of put: {} or {ttl}
CacheOptions ==
    {[hasTtl |-> FALSE, ttl |-> 0]} \cup {[hasTtl |-> TRUE, ttl |-> t] : t \in Ttls}
\* how far the clock moves between operations
Elapses == {1, defaultTTL}

NoEntry == [present |-> FALSE, value |-> "", expiresAt |-> 0]
NullValue == [isNull |-> TRUE, value |-> ""]
NeverPut == [any |-> FALSE, value |-> "", at |-> 0, options |-> [hasTtl |-> FALSE, ttl |-> 0],
             deleted |-> FALSE]

KvIdle ==
    /\ kvCache = [k \in CacheKeys |-> NoEntry]
    /\ kvNow = 0
    /\ kvAdvances = 0
    /\ lastPut = [k \in CacheKeys |-> NeverPut]
    /\ kvOp = [name |-> "none", key |-> "k1"]
    /\ kvResult = NullValue

\* options.ttl || this.defaultTTL: undefined and 0 are both falsy
EffectiveTtl(opts) ==
    IF opts.hasTtl /\ opts.ttl # 0 THEN opts.ttl ELSE defaultTTL

\* put(key, value, options)
CachePut(key, value, opts) ==
    /\ kvCache' = [kvCache EXCEPT ![key] =
                    [present |-> TRUE, value |-> value,
                     expiresAt |-> kvNow + EffectiveTtl(opts)]]
    /\ lastPut' = [lastPut EXCEPT ![key] =
                    [any |-> TRUE, value |-> value, at |-> kvNow,
                     options |-> opts, deleted |-> FALSE]]
    /\ kvOp' = [name |-> "put", key |-> key]
    /\ UNCHANGED <<kvNow, kvAdvances, kvResult>>

\* delete(key): this.cache.delete(key)
CacheDelete(key) ==
    /\ kvCache' = [kvCache EXCEPT ![key] = NoEntry]
    /\ lastPut' = [lastPut EXCEPT ![key].deleted = TRUE]
    /\ kvOp' = [name |-> "delete", key |-> key]
    /\ UNCHANGED <<kvNow, kvAdvances, kvResult>>

\* cached.expiresAt.getTime() < Date.now()
Expired(entry) == entry.expiresAt < kvNow

\* get(key): a miss and an expired entry give {value: null}; an expired
\* entry is removed on the way
CacheGet(key) ==
    /\ kvOp' = [name |-> "get", key |-> key]
    /\ IF ~kvCache[key].present
       THEN /\ kvResult' = NullValue
            /\ UNCHANGED kvCache
       ELSE IF Expired(kvCache[key])
       THEN /\ kvResult' = NullValue
            /\ kvCache' = [kvCache EXCEPT ![key] = NoEntry]
       ELSE /\ kvResult' = [isNull |-> FALSE, value |-> kvCache[key].value]
            /\ UNCHANGED kvCache
    /\ UNCHANGED <<kvNow, kvAdvances, lastPut>>

\* time passes between two operations
TimePasses ==
    /\ kvAdvances < MaxAdvances
    /\ \E d \in Elapses : kvNow' = kvNow + d
    /\ kvAdvances' = kvAdvances + 1
    /\ kvOp' = [name |-> "wait", key |-> kvOp.key]
    /\ UNCHANGED <<kvCache, lastPut, kvResult>>

KvNext ==
    \/ \E key \in CacheKeys, value \in CacheValues, opts \in CacheOptions :
          CachePut(key, value, opts)
    \/ \E key \in CacheKeys : CacheDelete(key)
    \/ \E key \in CacheKeys : CacheGet(key)
    \/ TimePasses

\* the time to live a put was given: its ttl option, the default without one
GivenTtl(opts) == IF opts.hasTtl THEN opts.ttl ELSE defaultTTL

\* the TTL of the most recent put of the key has run out
TtlElapsed(key) == lastPut[key].at + GivenTtl(lastPut[key].options) < kvNow

\* what the key holds: the most recent put's value, unless deleted or expired
Live(key) ==
    /\ lastPut[key].any
    /\ ~lastPut[key].deleted
    /\ ~TtlElapsed(key)

----------------------------------------------------------------------------
(* Part VIII: R1DatabaseClient.createTorrent                               *)
(*                                                                         *)
(* createTorrent builds the parameters of one INSERT ... RETURNING * and   *)
(* returns the row the database answers with.  JavaScript values carry     *)
(* their type, so that x || null and a missing property behave as in the   *)
(* code.                                                                   *)

\* bound of the createTorrent model: rows inserted
MaxRows == 2

JsUndefined == [t |-> "undefined", s |-> "", n |-> 0]
JsNull == [t |-> "null", s |-> "", n |-> 0]
JsString(s) == [t |-> "string", s |-> s, n |-> 0]
JsNumber(n) == [t |-> "number", s |-> "", n |-> n]

\* truthiness of a value: undefined, null, "" and 0 are falsy
JsTruthy(v) ==
    /\ v.t \notin {"undefined", "null"}
    /\ v.t = "string" => v.s # ""
    /\ v.t = "number" => v.n # 0

\* a || b
JsOr(a, b) == IF JsTruthy(a) THEN a ELSE b

\* the columns of the INSERT, with the parameters $1..$14 bound to them
\* (poster_url, added_by_user_id and is_active do not bear on what follows
\* and keep the values of a call that leaves them out)
InsertParams(id, now, data) ==
    [id |-> JsNumber(id),
     title |-> data.title,
     description |-> JsOr(data.description, JsNull),
     magnet_link |-> data.magnetLink,
     info_hash |-> JsOr(data.infoHash, JsNull),
     size |-> JsOr(data.size, JsNull),
     category_id |-> JsOr(data.categoryId, JsNull),
     poster_url |-> JsNull,
     added_by_user_id |-> JsNull,
     seeders |-> JsNumber(0),
     leechers |-> JsNumber(0),
     created_at |-> JsNumber(now),
     updated_at |-> JsNumber(now)]

\* object.name of a row the driver returned: result.rows are passed on as
\* they come, keyed by column name
Property(row, name) ==
    IF name \in DOMAIN row THEN row[name] ELSE JsUndefined

\* the torrentData objects callers pass
SuppliedData ==
    [title : {JsString("Test Torrent")},
     description : {JsUndefined, JsString("A test torrent")},
     magnetLink : {JsString("magnet:?xt=urn:btih:test123456789")},
     infoHash : {JsString("test123456789")},
     size : {JsUndefined, JsNumber(0), JsNumber(1024)},
     seeders : {JsNumber(0), JsNumber(10)},
     leechers : {JsNumber(0), JsNumber(5)},
     categoryId : {JsUndefined, JsString("c1")}]

NothingSupplied ==
    [title |-> JsUndefined, description |-> JsUndefined,
     magnetLink |-> JsUndefined, infoHash |-> JsUndefined,
     size |-> JsUndefined, seeders |-> JsUndefined, leechers |-> JsUndefined,
     categoryId |-> JsUndefined]

CreateIdle ==
    /\ torrentTable = <<>>
    /\ supplied = NothingSupplied
    /\ createdTorrent = [id |-> JsUndefined]

\* createTorrent(torrentData): id and now are fresh, the row is inserted and
\* RETURNING * hands it back
CreateTorrent(data) ==
    /\ Len(torrentTable) < MaxRows
    /\ LET row == InsertParams(Len(torrentTable) + 1, Len(torrentTable) + 1, data)
       IN  /\ torrentTable' = Append(torrentTable, row)
           /\ createdTorrent' = row
    /\ supplied' = data

CreateNext == \E data \in SuppliedData : CreateTorrent(data)

\* the properties a caller reads off a torrent
CallerFields ==
    {"title", "description", "magnetLink", "size", "seeders", "leechers",
     "categoryId"}

\* C24: createTorrent returns and stores a torrent whose title,
\* description, magnetLink, size, seeders, leechers and categoryId all
\* equal the values the caller supplied (a property the caller left out
\* is not constrained).
C24_CreatedTorrentKeepsSuppliedValues ==
    torrentTable # <<>> =>
        \A f \in CallerFields :
            supplied[f] # JsUndefined =>
                /\ Property(createdTorrent, f) = supplied[f]
                /\ Property(torrentTable[Len(torrentTable)], f) = supplied[f]

----------------------------------------------------------------------------
(* Part IX: two POST /ingest requests handled at the same time             *)
(*                                                                         *)
(* processTorrentData awaits the lookup and then awaits the write; the     *)
(* runtime may run another request's handler at each await.  Each handler  *)
(* carries one record with an infoHash, and the table starts empty.        *)

Handlers == {1, 2}

ConcurrentRecords ==
    { Rec(GoodTitle, h, m, s, Undef) :
        h \in {"h1", "h2"}, m \in {"magnet:1", "magnet:2"}, s \in {0, 5} }

NoRecord == Rec(<<>>, Undef, Undef, 0, Undef)

RaceIdle ==
    /\ deployed = "drizzle"
    /\ torrentRows = <<>>
    /\ incoming = [i \in Handlers |-> NoRecord]
    /\ existing = [i \in Handlers |-> {}]
    /\ hpc = [i \in Handlers |-> "idle"]
    /\ reported = [i \in Handlers |-> "none"]

RaceInit ==
    /\ deployed \in {"drizzle", "r1"}
    /\ torrentRows = <<>>
    /\ incoming = [i \in Handlers |-> NoRecord]
    /\ existing = [i \in Handlers |-> {}]
    /\ hpc = [i \in Handlers |-> "idle"]
    /\ reported = [i \in Handlers |-> "none"]

\* POST with a valid key and a one-record body reaches processTorrentData
Receive(i, r) ==
    /\ hpc[i] = "idle"
    /\ incoming' = [incoming EXCEPT ![i] = r]
    /\ hpc' = [hpc EXCEPT ![i] = "lookup"]
    /\ UNCHANGED <<deployed, torrentRows, existing, reported>>

\* existingTorrent = await <select by infoHash>
LookupExisting(i) ==
    /\ hpc[i] = "lookup"
    /\ existing' = [existing EXCEPT ![i] =
                      IF deployed = "drizzle"
                      THEN DrizzleLookup(torrentRows, incoming[i])
                      ELSE R1Lookup(torrentRows, incoming[i])]
    /\ hpc' = [hpc EXCEPT ![i] = "write"]
    /\ UNCHANGED <<deployed, torrentRows, incoming, reported>>

\* where the loop of POST pushes the record after a write that went through:
\* the R1 route then calls the missing invalidateCachePattern and lands in
\* its catch
PushedAfterWrite == IF deployed = "drizzle" THEN "results" ELSE "errors"

\* await <insert or update>, decided by what the lookup found, and the push
\* to results or errors
WriteTorrent(i) ==
    /\ hpc[i] = "write"
    /\ LET r == incoming[i]
       IN  IF existing[i] = {}
           THEN LET row == IF deployed = "drizzle"
                           THEN DrizzleRow(i, r) ELSE createTorrent(i, r)
                IN  IF UniqueViolation(torrentRows, row.id, row.infoHash)
                    THEN /\ reported' = [reported EXCEPT ![i] = "errors"]
                         /\ UNCHANGED torrentRows
                    ELSE /\ torrentRows' = Append(torrentRows, row)
                         /\ reported' = [reported EXCEPT ![i] = PushedAfterWrite]
           ELSE \E j \in existing[i] :
                LET row == IF deployed = "drizzle"
                           THEN DrizzleSet(torrentRows[j], r)
                           ELSE updateTorrent(torrentRows[j], r)
                IN  IF UniqueViolation(torrentRows, row.id, row.infoHash)
                    THEN /\ reported' = [reported EXCEPT ![i] = "errors"]
                         /\ UNCHANGED torrentRows
                    ELSE /\ torrentRows' = [torrentRows EXCEPT ![j] = row]
                         /\ reported' = [reported EXCEPT ![i] = PushedAfterWrite]
    /\ hpc' = [hpc EXCEPT ![i] = "done"]
    /\ UNCHANGED <<deployed, incoming, existing>>

RaceNext ==
    \/ \E i \in Handlers, r \in ConcurrentRecords : Receive(i, r)
    \/ \E i \in Handlers : LookupExisting(i)
    \/ \E i \in Handlers : WriteTorrent(i)

\* the rows of the table that carry the infoHash
RowsWithHash(h) == { j \in 1..Len(torrentRows) : torrentRows[j].infoHash = h }

\* both handlers are through, and their records carried the same infoHash
BothDoneSameHash ==
    /\ \A i \in Handlers : hpc[i] = "done"
    /\ incoming[1].infoHash = incoming[2].infoHash

\* C26: two POST /ingest requests, each with a record of the same previously
\* unseen infoHash and handled at the same time, leave exactly one torrent
\* with that infoHash, and neither record is reported as an error.
C26_ConcurrentIngestOfOneHash ==
    BothDoneSameHash =>
        /\ Cardinality(RowsWithHash(incoming[1].infoHash)) = 1
        /\ \A i \in Handlers : reported[i] # "errors"

----------------------------------------------------------------------------
(* Part X: GET latest served through the cache, and POST /ingest           *)
(*                                                                         *)
(* The latest route answers through withCache, i.e. getOrFetch of the      *)
(* cache client of Part VII.  What the torrent table holds is named by the *)
(* number of ingest writes it has taken: every insert or update gives a    *)
(* content that differs from all earlier ones.                             *)

\* bound of the model: ingest writes
MaxWrites == 2

\* content of the first page of latest torrents after n writes
Contents == <<"a", "b", "c", "d">>
LatestContents(n) == Contents[(n % Len(Contents)) + 1]

\* cacheKey of the route for one page, and the key cacheLatestTorrents uses
LatestKey == "k1"
ManagerLatestKey == "k2"

\* CACHE_CONFIGS.SHORT_TERM
SHORT_TERM == [hasTtl |-> TRUE, ttl |-> 5 * 60]

LatestIdle ==
    /\ latestPc = "idle"
    /\ dbVersion = 0
    /\ freshValue = ""
    /\ latestResponse = ""
    /\ lastEvent = "none"

\* GET: getOrFetch, first half.  const result = await this.get(key); a value
\* that is not null is returned as the response
GetLatest ==
    /\ latestPc = "idle"
    /\ CacheGet(LatestKey)
    /\ IF kvResult'.isNull
       THEN /\ latestPc' = "fetching"
            /\ UNCHANGED <<latestResponse, lastEvent>>
       ELSE /\ latestResponse' = kvResult'.value
            /\ lastEvent' = "get"
            /\ UNCHANGED latestPc
    /\ UNCHANGED <<dbVersion, freshValue>>

\* fetchFn: db.getLatestTorrents, then cacheManager.cacheLatestTorrents
FetchLatest ==
    /\ latestPc = "fetching"
    /\ freshValue' = LatestContents(dbVersion)
    /\ CachePut(ManagerLatestKey, LatestContents(dbVersion), SHORT_TERM)
    /\ latestPc' = "storing"
    /\ UNCHANGED <<dbVersion, latestResponse, lastEvent>>

\* getOrFetch, second half: await this.put(key, freshValue, options) and
\* return freshValue
StoreLatest ==
    /\ latestPc = "storing"
    /\ CachePut(LatestKey, freshValue, SHORT_TERM)
    /\ latestResponse' = freshValue
    /\ lastEvent' = "get"
    /\ latestPc' = "idle"
    /\ UNCHANGED <<dbVersion, freshValue>>

\* POST /ingest on the Drizzle route with a record that is inserted or
\* updated: the route does not touch the cache and answers success
IngestDrizzle ==
    /\ dbVersion < MaxWrites
    /\ dbVersion' = dbVersion + 1
    /\ lastEvent' = "ingest 200"
    /\ UNCHANGED <<latestPc, freshValue, latestResponse>>
    /\ UNCHANGED kvVars

\* POST /ingest on the R1 route: the row is written, then
\* cacheManager.invalidateCachePattern, which TorrentCacheManager does not
\* have, throws; the cache is untouched and the answer is 500
IngestR1 ==
    /\ dbVersion < MaxWrites
    /\ dbVersion' = dbVersion + 1
    /\ lastEvent' = "ingest 500"
    /\ UNCHANGED <<latestPc, freshValue, latestResponse>>
    /\ UNCHANGED kvVars

\* time passes between two steps
LatestTimePasses == TimePasses /\ UNCHANGED latestVars

LatestNext ==
    \/ GetLatest
    \/ FetchLatest
    \/ StoreLatest
    \/ IngestDrizzle
    \/ IngestR1
    \/ LatestTimePasses

\* C27: after a POST /ingest that inserted or updated a torrent has
\* answered success, the next GET latest reflects the change: results
\* cached before the ingest are not served after it.
C27_IngestIsVisibleToNextGet ==
    [][ (/\ lastEvent = "ingest 200"
         /\ latestPc = "idle"
         /\ lastEvent' = "get")
        => latestResponse' = LatestContents(dbVersion) ]_vars

----------------------------------------------------------------------------
(* Part XI: sendToBackend and sendBatchWithRetry                           *)
(*                                                                         *)
(* The torrents of a run are posted in batches of CONFIG.batchSize, one    *)
(* after the other; a batch that fails is posted again up to               *)
(* CONFIG.maxRetries times.                                                *)

\* bound of the model: batches in one call
MaxBatches == 4

\* CONFIG.batchSize
batchSize == 50
\* CONFIG.maxRetries
sendMaxRetries == 3

\* allTorrents.length: nothing, full batches, and one torrent over
TorrentCounts ==
    {0} \cup { k * batchSize : k \in 1..MaxBatches }
        \cup { (k - 1) * batchSize + 1 : k \in 1..MaxBatches }

\* the values i takes in for (let i = 0; i < n; i += CONFIG.batchSize)
BatchStarts(n) == { i \in 0..n : i % batchSize = 0 /\ i < n }

\* how one post of a batch ends: response.ok and result.success, a response
\* that is not ok (or fetch throwing), or a body with success false
PostOutcomes == {"accepted", "status", "body"}

SendIdle ==
    /\ allTorrents = 0
    /\ batchStart = 0
    /\ retryCount = 0
    /\ submitted = {}
    /\ sendPc = "idle"
    /\ lastFailure = "none"

\* sendToBackend(scraperResults) with the backend configured, up to the loop
sendToBackend(n) ==
    /\ sendPc = "idle"
    /\ allTorrents' = n
    /\ batchStart' = 0
    /\ retryCount' = 0
    /\ submitted' = {}
    /\ lastFailure' = "none"
    /\ sendPc' = IF n = 0 THEN "returned" ELSE "sending"

\* sendBatchWithRetry(batch, retryCount): one post and what follows it.  An
\* accepted batch lets the loop go on; a failed one is retried while
\* retryCount < CONFIG.maxRetries, and after that the error is thrown through
\* the loop and out of sendToBackend
sendBatchWithRetry(outcome) ==
    /\ sendPc = "sending"
    /\ submitted' = submitted \cup {batchStart}
    /\ IF outcome = "accepted"
       THEN /\ batchStart' = batchStart + batchSize
            /\ retryCount' = 0
            /\ lastFailure' = "none"
            /\ sendPc' = IF batchStart + batchSize < allTorrents
                         THEN "sending" ELSE "returned"
       ELSE /\ lastFailure' = outcome
            /\ IF retryCount < sendMaxRetries
               THEN /\ retryCount' = retryCount + 1
                    /\ UNCHANGED <<batchStart, sendPc>>
               ELSE /\ sendPc' = "threw"
                    /\ UNCHANGED <<batchStart, retryCount>>
    /\ UNCHANGED allTorrents

SendNext ==
    \/ \E n \in TorrentCounts : sendToBackend(n)
    \/ \E outcome \in PostOutcomes : sendBatchWithRetry(outcome)

\* C28: every batch of a run is submitted to the backend at least once: a
\* batch that fails after exhausting its retries does not keep the batches
\* after it from being submitted.
C28_EveryBatchIsSubmitted ==
    sendPc \in {"returned", "threw"} => submitted = BatchStarts(allTorrents)

----------------------------------------------------------------------------
(* Part XII: the connection of R1DatabaseClient                            *)
(*                                                                         *)
(* Every operation goes through query(), which awaits ensureConnection().  *)
(* Operations issued together run up to their first await one after the    *)
(* other, and go on in any order as their awaits resolve.  Clients are     *)
(* numbered in the order they are constructed.                             *)

\* bound of the model: PostgreSQLClient objects constructed
MaxClients == 3

Operations == {1, 2}

\* private client: PostgreSQLClient | null = null
NoClient == 0

ConnIdle ==
    /\ client = NoClient
    /\ isConnected = FALSE
    /\ constructed = 0
    /\ openClients = {}
    /\ opPc = [o \in Operations |-> "idle"]
    /\ ending = NoClient

\* query() calls ensureConnection(): with !this.isConnected || !this.client
\* it calls connect(), which sets this.client = new PostgreSQLClient(...) and
\* awaits SELECT 1; otherwise the client held is used for the query
ensureConnection(o) ==
    /\ opPc[o] = "idle"
    /\ IF ~isConnected \/ client = NoClient
       THEN /\ constructed < MaxClients
            /\ constructed' = constructed + 1
            /\ client' = constructed + 1
            /\ openClients' = openClients \cup {constructed + 1}
            /\ opPc' = [opPc EXCEPT ![o] = "connecting"]
       ELSE /\ opPc' = [opPc EXCEPT ![o] = "querying"]
            /\ UNCHANGED <<client, constructed, openClients>>
    /\ UNCHANGED <<isConnected, ending>>

\* connect() after await this.client.query('SELECT 1'): on success
\* this.isConnected = true, and ensureConnection returns this.client unless
\* it is null; on failure the error is thrown up through query()
connect(o, ok) ==
    /\ opPc[o] = "connecting"
    /\ IF ok
       THEN /\ isConnected' = TRUE
            /\ opPc' = [opPc EXCEPT ![o] =
                          IF client = NoClient THEN "failed" ELSE "querying"]
       ELSE /\ opPc' = [opPc EXCEPT ![o] = "failed"]
            /\ UNCHANGED isConnected
    /\ UNCHANGED <<client, constructed, openClients, ending>>

\* await client.query(text, params) is over, whichever way; the caller may
\* issue its next operation
query(o) ==
    /\ opPc[o] \in {"querying", "failed"}
    /\ opPc' = [opPc EXCEPT ![o] = "idle"]
    /\ UNCHANGED <<client, isConnected, constructed, openClients, ending>>

\* disconnect(), up to its await: if (this.client) await this.client.end()
disconnect ==
    /\ ending = NoClient
    /\ client # NoClient
    /\ ending' = client
    /\ openClients' = openClients \ {client}
    /\ UNCHANGED <<client, isConnected, constructed, opPc>>

\* disconnect() after the await: this.client = null; this.isConnected = false
disconnected ==
    /\ ending # NoClient
    /\ client' = NoClient
    /\ isConnected' = FALSE
    /\ ending' = NoClient
    /\ UNCHANGED <<constructed, openClients, opPc>>

ConnNext ==
    \/ \E o \in Operations : ensureConnection(o)
    \/ \E o \in Operations, ok \in BOOLEAN : connect(o, ok)
    \/ \E o \in Operations : query(o)
    \/ disconnect
    \/ disconnected

\* C29: an R1DatabaseClient has at most one database connection open at a
\* time: operations issued together, before the first connection attempt is
\* over, construct one client only, and no client is replaced without being
\* closed.
C29_AtMostOneConnection ==
    Cardinality(openClients) <= 1

----------------------------------------------------------------------------
(* Part XIII: TorrentBloc (the Flutter client)                             *)
(*                                                                         *)
(* _mapSearchTorrentsToState and _mapGetLatestTorrentsToState have the     *)
(* same body: emit TorrentLoading(state.torrents), await the use case,     *)
(* then emit TorrentError or TorrentLoaded.  One event is handled at a     *)
(* time.  A torrent is named by the page it is listed on.                  *)

\* bounds of the model: pages asked for, and torrents held
MaxPage == 3
MaxLoaded == 3

\* the state classes; TorrentInitial carries no torrents
TorrentInitial == [class |-> "TorrentInitial", torrents |-> <<>>]
TorrentLoading(torrents) == [class |-> "TorrentLoading", torrents |-> torrents]
TorrentLoaded(torrents) == [class |-> "TorrentLoaded", torrents |-> torrents]
\* const TorrentError(this.message, [this.torrents = const []]), as the
\* handlers call it: TorrentError(failure.message)
TorrentError == [class |-> "TorrentError", torrents |-> <<>>]

EventKinds == {"SearchTorrentsEvent", "GetLatestTorrentsEvent"}
NoEvent == [kind |-> "none", page |-> 1]
NoOutcome == [result |-> "none", page |-> 1, before |-> <<>>, items |-> <<>>]

\* what the use case returns for a page when it succeeds
PageItems(page) == <<page>>

BlocIdle ==
    /\ blocState = TorrentInitial
    /\ pending = NoEvent
    /\ handled = NoOutcome

\* an event is added: emit(TorrentLoading(state.torrents)), then the await
AddEvent(kind, page) ==
    /\ pending = NoEvent
    /\ page = 1 \/ Len(blocState.torrents) < MaxLoaded
    /\ pending' = [kind |-> kind, page |-> page]
    /\ handled' = [result |-> "none", page |-> page,
                   before |-> blocState.torrents, items |-> <<>>]
    /\ blocState' = TorrentLoading(blocState.torrents)

\* result.fold, right side: page 1 replaces, another page is added to
\* List.from(state.torrents)
EmitLoaded ==
    /\ pending # NoEvent
    /\ blocState' = IF pending.page = 1
                    THEN TorrentLoaded(PageItems(pending.page))
                    ELSE TorrentLoaded(blocState.torrents \o PageItems(pending.page))
    /\ handled' = [handled EXCEPT !.result = "loaded",
                                  !.items = PageItems(pending.page)]
    /\ pending' = NoEvent

\* result.fold, left side: emit(TorrentError(failure.message))
EmitError ==
    /\ pending # NoEvent
    /\ blocState' = TorrentError
    /\ handled' = [handled EXCEPT !.result = "failed"]
    /\ pending' = NoEvent

\* ClearTorrentErrorEvent: emit(TorrentLoaded(state.torrents))
ClearTorrentError ==
    /\ pending = NoEvent
    /\ blocState.class = "TorrentError"
    /\ blocState' = TorrentLoaded(blocState.torrents)
    /\ handled' = NoOutcome
    /\ UNCHANGED pending

BlocNext ==
    \/ \E kind \in EventKinds, page \in 1..MaxPage : AddEvent(kind, page)
    \/ EmitLoaded
    \/ EmitError
    \/ ClearTorrentError

\* a request for page 1 replaces the list, one for page n > 1 appends to it
PageOneReplacesOthersAppend ==
    handled.result = "loaded" =>
        blocState.torrents = IF handled.page = 1 THEN handled.items
                             ELSE handled.before \o handled.items

\* C30: in TorrentBloc a search or latest request for page 1 replaces the
\* torrent list and a request for page n > 1 appends to it; when a request
\* for page n > 1 fails, the resulting state still holds the torrents that
\* were loaded before the request.
C30_PagingKeepsLoadedTorrents ==
    /\ PageOneReplacesOthersAppend
    /\ (handled.result = "failed" /\ handled.page > 1) =>
            blocState.torrents = handled.before

----------------------------------------------------------------------------
(* Specifications                                                          *)

Init == IngestInit /\ FetchIdle /\ NormIdle /\ RunIdle /\ ParseIdle /\
    StatsIdle /\ KvIdle /\ CreateIdle /\ RaceIdle /\ LatestIdle /\
    SendIdle /\ ConnIdle /\ BlocIdle

Next == IngestNext /\ UNCHANGED <<fetchVars, normVars, runVars, parseVars,
        statVars, kvVars, createVars, raceVars, latestVars, sendVars,
        connVars, blocVars>>

Spec == Init /\ [][Next]_vars

InitFetch == FetchInit /\ IngestIdle /\ NormIdle /\ RunIdle /\ ParseIdle /\
    StatsIdle /\ KvIdle /\ CreateIdle /\ RaceIdle /\ LatestIdle /\
    SendIdle /\ ConnIdle /\ BlocIdle

NextFetch == FetchNext /\ UNCHANGED <<ingestVars, normVars, runVars,
        parseVars, statVars, kvVars, createVars, raceVars, latestVars,
        sendVars, connVars, blocVars>>

SpecFetch == InitFetch /\ [][NextFetch]_vars

NextScraper == ScraperNext /\ UNCHANGED <<ingestVars, normVars, runVars,
        parseVars, statVars, kvVars, createVars, raceVars, latestVars,
        sendVars, connVars, blocVars>>

SpecScraper == InitFetch /\ [][NextScraper]_vars

InitNormalize == NormInit /\ IngestIdle /\ FetchIdle /\ RunIdle /\
    ParseIdle /\ StatsIdle /\ KvIdle /\ CreateIdle /\ RaceIdle /\
    LatestIdle /\ SendIdle /\ ConnIdle /\ BlocIdle

NextNormalize == NormNext /\ UNCHANGED <<ingestVars, fetchVars, runVars,
        parseVars, statVars, kvVars, createVars, raceVars, latestVars,
        sendVars, connVars, blocVars>>

SpecNormalize == InitNormalize /\ [][NextNormalize]_vars

InitRun == RunIdle /\ IngestIdle /\ FetchIdle /\ NormIdle /\ ParseIdle /\
    StatsIdle /\ KvIdle /\ CreateIdle /\ RaceIdle /\ LatestIdle /\
    SendIdle /\ ConnIdle /\ BlocIdle

NextRun == RunNext /\ UNCHANGED <<ingestVars, fetchVars, normVars,
        parseVars, statVars, kvVars, createVars, raceVars, latestVars,
        sendVars, connVars, blocVars>>

SpecRun == InitRun /\ [][NextRun]_vars

NextWorker == WorkerNext /\ UNCHANGED <<ingestVars, fetchVars, normVars,
        parseVars, statVars, kvVars, createVars, raceVars, latestVars,
        sendVars, connVars, blocVars>>

SpecWorker == InitRun /\ [][NextWorker]_vars

InitParse == ParseInit /\ IngestIdle /\ FetchIdle /\ NormIdle /\ RunIdle /\
    StatsIdle /\ KvIdle /\ CreateIdle /\ RaceIdle /\ LatestIdle /\
    SendIdle /\ ConnIdle /\ BlocIdle

NextParse == ParseNext /\ UNCHANGED <<ingestVars, fetchVars, normVars,
        runVars, statVars, kvVars, createVars, raceVars, latestVars,
        sendVars, connVars, blocVars>>

SpecParse == InitParse /\ [][NextParse]_vars

InitStats == StatsIdle /\ IngestIdle /\ FetchIdle /\ NormIdle /\ RunIdle /\
    ParseIdle /\ KvIdle /\ CreateIdle /\ RaceIdle /\ LatestIdle /\
    SendIdle /\ ConnIdle /\ BlocIdle

NextStats == StatsNext /\ UNCHANGED <<ingestVars, fetchVars, normVars,
        runVars, parseVars, kvVars, createVars, raceVars, latestVars,
        sendVars, connVars, blocVars>>

SpecStats == InitStats /\ [][NextStats]_vars

InitKv == KvIdle /\ IngestIdle /\ FetchIdle /\ NormIdle /\ RunIdle /\
    ParseIdle /\ StatsIdle /\ CreateIdle /\ RaceIdle /\ LatestIdle /\
    SendIdle /\ ConnIdle /\ BlocIdle

NextKv == KvNext /\ UNCHANGED <<ingestVars, fetchVars, normVars, runVars,
        parseVars, statVars, createVars, raceVars, latestVars, sendVars,
        connVars, blocVars>>

SpecKv == InitKv /\ [][NextKv]_vars

InitCreate == CreateIdle /\ IngestIdle /\ FetchIdle /\ NormIdle /\
    RunIdle /\ ParseIdle /\ StatsIdle /\ KvIdle /\ RaceIdle /\
    LatestIdle /\ SendIdle /\ ConnIdle /\ BlocIdle

NextCreate == CreateNext /\ UNCHANGED <<ingestVars, fetchVars, normVars,
        runVars, parseVars, statVars, kvVars, raceVars, latestVars,
        sendVars, connVars, blocVars>>

SpecCreate == InitCreate /\ [][NextCreate]_vars

InitRace == RaceInit /\ IngestIdle /\ FetchIdle /\ NormIdle /\ RunIdle /\
    ParseIdle /\ StatsIdle /\ KvIdle /\ CreateIdle /\ LatestIdle /\
    SendIdle /\ ConnIdle /\ BlocIdle

NextRace == RaceNext /\ UNCHANGED <<ingestVars, fetchVars, normVars,
        runVars, parseVars, statVars, kvVars, createVars, latestVars,
        sendVars, connVars, blocVars>>

SpecRace == InitRace /\ [][NextRace]_vars

InitLatest == LatestIdle /\ KvIdle /\ IngestIdle /\ FetchIdle /\
    NormIdle /\ RunIdle /\ ParseIdle /\ StatsIdle /\ CreateIdle /\
    RaceIdle /\ SendIdle /\ ConnIdle /\ BlocIdle

NextLatest == LatestNext /\ UNCHANGED <<ingestVars, fetchVars, normVars,
        runVars, parseVars, statVars, createVars, raceVars, sendVars,
        connVars, blocVars>>

SpecLatest == InitLatest /\ [][NextLatest]_vars

InitSend == SendIdle /\ IngestIdle /\ FetchIdle /\ NormIdle /\ RunIdle /\
    ParseIdle /\ StatsIdle /\ KvIdle /\ CreateIdle /\ RaceIdle /\
    LatestIdle /\ ConnIdle /\ BlocIdle

NextSend == SendNext /\ UNCHANGED <<ingestVars, fetchVars, normVars,
        runVars, parseVars, statVars, kvVars, createVars, raceVars,
        latestVars, connVars, blocVars>>

SpecSend == InitSend /\ [][NextSend]_vars

InitConn == ConnIdle /\ IngestIdle /\ FetchIdle /\ NormIdle /\ RunIdle /\
    ParseIdle /\ StatsIdle /\ KvIdle /\ CreateIdle /\ RaceIdle /\
    LatestIdle /\ SendIdle /\ BlocIdle

NextConn == ConnNext /\ UNCHANGED <<ingestVars, fetchVars, normVars,
        runVars, parseVars, statVars, kvVars, createVars, raceVars,
        latestVars, sendVars, blocVars>>

SpecConn == InitConn /\ [][NextConn]_vars

InitBloc == BlocIdle /\ IngestIdle /\ FetchIdle /\ NormIdle /\ RunIdle /\
    ParseIdle /\ StatsIdle /\ KvIdle /\ CreateIdle /\ RaceIdle /\
    LatestIdle /\ SendIdle /\ ConnIdle

NextBloc == BlocNext /\ UNCHANGED <<ingestVars, fetchVars, normVars,
        runVars, parseVars, statVars, kvVars, createVars, raceVars,
        latestVars, sendVars, connVars>>

SpecBloc == InitBloc /\ [][NextBloc]_vars

====
